---- MODULE Spec2Model ----
(***************************************************************************)
(* Resume parsing facade (services/enhanced_resume_parser.py,              *)
(* services/spacy_resume_parser.py) and job matching engine                *)
(* (services/job_matching_engine.py) of the hotgigs backend.               *)
(*                                                                         *)
(* Strings that the code takes apart are sequences of their parts: a file  *)
(* name is the sequence of its dot-separated segments, a location or a     *)
(* free text is the sequence of its words and separators.  Extracted text  *)
(* is kept as its length and the length of its strip()ped form, which is   *)
(* all the fallback chain looks at.  Scores are exact rationals <<n, d>>   *)
(* and, once the code has round()ed them to 3 places, integers in          *)
(* thousandths.                                                            *)
(***************************************************************************)
EXTENDS Integers, Sequences, FiniteSets, TLC

VARIABLES
    file,        \* the uploaded file object: filename, size, whether seek() raises
    provider,    \* the provider argument of parse_resume
    env,         \* what the extraction libraries and the OCR service answer for this file
    pc,          \* the function of the fallback chain that runs next
    attempted,   \* the provider functions entered so far, in call order
    extracted,   \* per provider that ran a text extraction: what it obtained
    result,      \* the value parse_resume returns
    stream,      \* the file object's position, and per read of the file by a
                 \* provider the position at which it began
    candidate,   \* matching engine input: candidate record
    job,         \* matching engine input: job record
    models_fitted, \* SemanticJobMatchingEngine._models_fitted
    description_vectorizer, \* the engine's description TF-IDF vectorizer
    skill_vectorizer,       \* the engine's skill TF-IDF vectorizer
    match,       \* the last value returned by calculate_match_score
    op,          \* whether a skill was added, the skills score before that, and
                 \* whether match was computed from the present candidate, job
                 \* and engine state
    previous,    \* the first of two parse requests for the same file: its
                 \* result and what the cloud OCR answered
    doc,         \* a resume text: its lines, and what the field extractors find
    parsed,      \* the sections and parsing_metadata scores a parser built from doc
    growth,      \* whether doc gained a section, and the completeness before
    fitters,     \* per concurrent fit_models call: the statement it runs next
    scorer,      \* a concurrent _calculate_semantic_match: the statement it runs
                 \* next and what it has read
    fit_log,     \* the arguments of the fit_models calls made so far, in order
    skill_list,  \* the skills _extract_skills found in a text, in skills_db
                 \* order, and the list it returned
    resumes,     \* the rows of the resumes table
    upload_dir,  \* the number of files in uploads/resumes
    requests,    \* per request to the resume routes: its operation, its
                 \* inputs, the statement it runs next and its response
    latest,      \* the request answered last
    ranking      \* the last call of find_best_matches or find_best_candidates:
                 \* its arguments, the match results and the list returned

parseVars == <<file, provider, env, pc, attempted, extracted, result, stream>>
matchVars == <<candidate, job, models_fitted, description_vectorizer,
               skill_vectorizer, match, op>>
rankVars == <<ranking>>
\* what a parse request leaves alone, what the scoring operations do, and
\* what the ranking functions do
scoreVars == <<doc, parsed, growth>>
threadVars == <<fitters, scorer>>
skillVars == <<skill_list>>
fitVars == <<fit_log>>
resumeVars == <<resumes, upload_dir, requests, latest>>
outsideParse == <<matchVars, rankVars, previous, scoreVars, threadVars,
                  skillVars, resumeVars, fitVars>>
outsideMatch == <<parseVars, rankVars, previous, scoreVars, threadVars,
                  skillVars, resumeVars, fitVars>>
outsideRank == <<parseVars, matchVars, previous, scoreVars, threadVars,
                  skillVars, resumeVars, fitVars>>
outsideScores == <<parseVars, matchVars, rankVars, previous, threadVars,
                  skillVars, resumeVars, fitVars>>
\* what the statements of concurrent engine calls leave alone
outsideThreads == <<parseVars, rankVars, previous, scoreVars, candidate, job, match, op,
                    skillVars, resumeVars, fitVars>>
\* what skill extraction leaves alone, and what the resume routes do
outsideSkills == <<parseVars, matchVars, rankVars, previous, scoreVars, threadVars,
                   resumeVars, fitVars>>
outsideResumes == <<parseVars, matchVars, rankVars, previous, scoreVars, threadVars,
                    skillVars, fitVars>>
\* what a fit_models call leaves alone
outsideFit == <<parseVars, rankVars, previous, scoreVars, threadVars, skillVars,
                resumeVars, candidate, job, match, op>>
vars == <<file, provider, env, pc, attempted, extracted, result, stream,
          candidate, job, models_fitted, description_vectorizer,
          skill_vectorizer, match, op, previous, doc, parsed, growth,
          fitters, scorer, fit_log, skill_list, resumes, upload_dir, requests, latest,
          ranking>>

(***************************************************************************)
(* Bounds                                                                  *)
(***************************************************************************)
MaxPad == 1          \* leading/trailing whitespace characters around a text

(***************************************************************************)
(* Resume parsing: constants                                               *)
(***************************************************************************)
ALLOWED_EXTENSIONS == {"pdf", "doc", "docx", "txt", "rtf", "png", "jpg", "jpeg", "gif"}
MAX_FILE_SIZE == 10 * 1024 * 1024
MIN_TEXT_CHARS == 10
SPACY_MIN_TEXT_CHARS == 50
providers == {"spacy_nlp", "ocr_space", "local_ocr", "text_extraction"}
\* variant: the cloud OCR provider as the default
DEFAULT_PROVIDER_cloud == "ocr_space"
DEFAULT_PROVIDER == "spacy_nlp"
IMAGE_EXTENSIONS == {"png", "jpg", "jpeg", "gif", "bmp", "tiff"}
DOC_EXTENSIONS == {"doc", "docx"}

\* a provider argument that cannot be a dictionary key (a JSON list or object)
UNHASHABLE == "<unhashable>"
ProviderArgs == providers \cup {"bogus", UNHASHABLE}

\* str.lower() on the words the model uses
lower(w) ==
    CASE w = "PDF" -> "pdf"
      [] w = "Austin" -> "austin"
      [] w = "TX" -> "tx"
      [] w = "Dallas" -> "dallas"
      [] w = "Python" -> "python"
      [] w = "SQL" -> "sql"
      [] w = "Sql" -> "sql"
      [] w = "Finance" -> "finance"
      [] w = "Technology" -> "technology"
      [] w = "Expert" -> "expert"
      [] w = "Software" -> "software"
      [] w = "Engineer" -> "engineer"
      [] w = "Acme" -> "acme"
      [] OTHER -> w

\* filename.lower().split('.')[-1] if filename else 'txt'
file_ext(filename) ==
    IF filename = <<>> THEN "txt" ELSE lower(filename[Len(filename)])

FileNames ==
    {<<>>, <<"cv">>, <<"cv", "pdf", "exe">>}
      \cup {<<"cv", e>> : e \in ALLOWED_EXTENSIONS \cup {"PDF", "bmp", "exe"}}
FileSizes == {1024, MAX_FILE_SIZE, MAX_FILE_SIZE + 1}

(***************************************************************************)
(* Extracted text and library outcomes                                     *)
(***************************************************************************)
StripLens == {0, MIN_TEXT_CHARS - 1, MIN_TEXT_CHARS,
              SPACY_MIN_TEXT_CHARS - 1, SPACY_MIN_TEXT_CHARS}
Texts == {[raw |-> s + p, strip |-> s] : s \in StripLens, p \in 0..MaxPad}
EmptyText == [raw |-> 0, strip |-> 0]

\* str.strip()
strip(t) == [raw |-> t.strip, strip |-> t.strip]

Raised(msg) == [raises |-> TRUE, msg |-> msg, text |-> EmptyText]
Returned(t) == [raises |-> FALSE, msg |-> "", text |-> t]
Outcomes == {Raised("library error")} \cup {Returned(t) : t \in Texts}
DefaultOutcome == Returned([raw |-> SPACY_MIN_TEXT_CHARS, strip |-> SPACY_MIN_TEXT_CHARS])

\* answers of the OCR.space call: no API key in the environment, the request
\* raising, a non-200 status, IsErroredOnProcessing, or a ParsedText
CloudOutcomes ==
    {[kind |-> k, text |-> EmptyText] : k \in {"no_key", "request_raises", "http_error", "errored"}}
      \cup {[kind |-> "parsed", text |-> t] : t \in Texts}
DefaultCloud == [kind |-> "no_key", text |-> EmptyText]

(***************************************************************************)
(* Result records                                                          *)
(***************************************************************************)
EmptyData == [k \in {} |-> 0]

Failure(prefix, detail) ==
    [kind |-> "record", success |-> FALSE, error |-> <<prefix, detail>>,
     data |-> EmptyData, provider |-> "", raw_text |-> EmptyText]

Success(data, text, label) ==
    [kind |-> "record", success |-> TRUE, error |-> <<"", "">>,
     data |-> data, provider |-> label, raw_text |-> text]

Propagated(detail) ==
    [kind |-> "raised", success |-> FALSE, error |-> <<"", detail>>,
     data |-> EmptyData, provider |-> "", raw_text |-> EmptyText]

NoResult ==
    [kind |-> "none", success |-> FALSE, error |-> <<"", "">>,
     data |-> EmptyData, provider |-> "", raw_text |-> EmptyText]

\* the field extractors' output for a text, kept abstract
Extracted(field, text) == [field |-> field, from |-> text.raw]

\* variant: the key set of the file-path based service, 'experience' for
\* 'work_experience'
parse_text_content_experience(text) ==
    [personal_info |-> Extracted("personal_info", text),
     contact_info |-> Extracted("contact_info", text),
     summary |-> Extracted("summary", text),
     skills |-> Extracted("skills", text),
     education |-> Extracted("education", text),
     experience |-> Extracted("work_experience", text),
     domain_expertise |-> Extracted("domain_expertise", text),
     parsing_metadata |-> [provider |-> "basic_extraction",
                           confidence_score |-> 600,
                           text_length |-> text.raw]]

\* EnhancedResumeParsingService._parse_text_content
parse_text_content(text) ==
    [personal_info |-> Extracted("personal_info", text),
     contact_info |-> Extracted("contact_info", text),
     summary |-> Extracted("summary", text),
     skills |-> Extracted("skills", text),
     education |-> Extracted("education", text),
     work_experience |-> Extracted("work_experience", text),
     domain_expertise |-> Extracted("domain_expertise", text),
     parsing_metadata |-> [provider |-> "basic_extraction",
                           confidence_score |-> 600,
                           text_length |-> text.raw]]

\* variant: the metadata keeps the label _parse_text_content wrote
with_provider_unlabelled(data, label) == data
\* parsed_data['parsing_metadata']['provider'] = label
with_provider(data, label) ==
    [data EXCEPT !.parsing_metadata.provider = label]

(***************************************************************************)
(* EnhancedResumeParsingService._validate_file                             *)
(***************************************************************************)
\* variant: validation without the size limit
validate_file_any_size(f) ==
    IF f.seekRaises THEN FALSE
    ELSE IF f.filename # <<>> THEN file_ext(f.filename) \in ALLOWED_EXTENSIONS
    ELSE TRUE
validate_file(f) ==
    IF f.seekRaises THEN FALSE
    ELSE IF f.size > MAX_FILE_SIZE THEN FALSE
    ELSE IF f.filename # <<>> THEN file_ext(f.filename) \in ALLOWED_EXTENSIONS
    ELSE TRUE

\* variant: an unknown name selects text extraction
select_provider_text(p) == IF p \notin providers THEN "text_extraction" ELSE p
\* the provider parse_resume dispatches to
select_provider(p) == IF p \notin providers THEN DEFAULT_PROVIDER ELSE p

\* variant: parse_resume without its except clause
parse_resume_propagates(detail) == Propagated(detail)
\* the except clause of parse_resume
parse_resume_except(detail) == Failure("Resume parsing failed: ", detail)

(***************************************************************************)
(* Text extractors                                                         *)
(***************************************************************************)
\* _extract_text_from_pdf / _extract_text_from_docx (both services): the
\* library's page or paragraph text, stripped; any exception is re-raised
extract_text_from_document(e) ==
    IF e.doc.raises THEN Raised("PDF text extraction failed") ELSE Returned(strip(e.doc.text))

\* file.read().decode('utf-8', errors='ignore')
read_and_decode(e) == e.raw

\* EnhancedResumeParsingService._extract_text_from_image / _extract_text_from_pdf_ocr
extract_text_with_tesseract(e) ==
    IF e.ocr.raises THEN Raised("Image OCR failed") ELSE Returned(strip(e.ocr.text))

\* SpacyResumeParser._extract_text_from_file
spacy_extract_text_from_file(f, e) ==
    LET ext == file_ext(f.filename) IN
    IF ext = "pdf" \/ ext \in DOC_EXTENSIONS THEN
        (IF e.doc.raises THEN Raised("Text extraction failed") ELSE Returned(strip(e.doc.text)))
    ELSE IF ext \in IMAGE_EXTENSIONS THEN
        (IF e.spacyOcr.raises THEN Raised("Text extraction failed") ELSE Returned(strip(e.spacyOcr.text)))
    ELSE
        (IF e.raw.raises THEN Raised("Text extraction failed") ELSE e.raw)

\* the text extraction of _parse_with_text_extraction
plain_extract(f, e) ==
    LET ext == file_ext(f.filename) IN
    IF ext = "pdf" \/ ext \in DOC_EXTENSIONS THEN extract_text_from_document(e)
    ELSE read_and_decode(e)

\* not text_content or len(text_content.strip()) < n
insufficient(t, n) == t.raw = 0 \/ t.strip < n

(***************************************************************************)
(* SpacyResumeParser.parse_resume: returns a record for every exception    *)
(* raised inside its try block                                             *)
(***************************************************************************)
spacy_data(text) ==
    [personal_info |-> Extracted("personal_info", text),
     contact_info |-> Extracted("contact_info", text),
     summary |-> Extracted("summary", text),
     skills |-> Extracted("skills", text),
     education |-> Extracted("education", text),
     work_experience |-> Extracted("work_experience", text),
     domain_expertise |-> Extracted("domain_expertise", text),
     parsing_metadata |-> [provider |-> "spacy_nlp",
                           confidence_score |-> 0,
                           text_length |-> text.raw]]

spacy_parse_resume(f, e) ==
    LET out == spacy_extract_text_from_file(f, e) IN
    IF out.raises THEN Failure("spaCy parsing failed: ", out.msg)
    ELSE IF insufficient(out.text, SPACY_MIN_TEXT_CHARS)
        THEN Failure("Insufficient text content extracted from file", "")
    ELSE IF e.nlpRaises THEN Failure("spaCy parsing failed: ", "nlp pipeline error")
    ELSE Success(spacy_data(out.text), out.text, "spacy_nlp")

\* an exception was raised inside SpacyResumeParser.parse_resume's try block
\* and its except clause raised as well, so that the exception reaches
\* _parse_with_spacy
spacy_raises(f, e) ==
    LET out == spacy_extract_text_from_file(f, e) IN
    /\ out.raises \/ (~insufficient(out.text, SPACY_MIN_TEXT_CHARS) /\ e.nlpRaises)
    /\ e.handlerRaises

\* variant: the NLP provider hands over to its chain successor
spacy_fallback_successor == "ocr_space"
\* where _parse_with_spacy goes when the NLP parser raises
spacy_fallback == "text_extraction"
\* where _parse_with_ocr_space goes without API key or on any exception
ocr_space_fallback == "local_ocr"
\* where _parse_with_local_ocr goes on another file type or on any exception
local_ocr_fallback == "text_extraction"

(***************************************************************************)
(* The file object's position                                              *)
(***************************************************************************)
NewStream == [offset |-> 0, reads |-> <<>>]

\* variant: a provider reads on from where the stream stands
seek_start_skipped(st) == st
\* file.seek(0)
seek_start(st) == [st EXCEPT !.offset = 0]

\* a provider's extraction reads the file from the present position: to the
\* end when it returns, past the header when it raises
read_file(st, name, f, out) ==
    [offset |-> IF out.raises THEN 1 ELSE f.size,
     reads |-> Append(st.reads, [provider |-> name, offset |-> st.offset])]

(***************************************************************************)
(* Actions of one parse request                                            *)
(***************************************************************************)
\* EnhancedResumeParsingService.parse_resume up to the provider call
parse_resume ==
    /\ pc = "parse_resume"
    /\ IF ~validate_file(file)
         THEN /\ result' = Failure("Invalid file format or size", "")
              /\ pc' = "done"
       ELSE IF provider = UNHASHABLE
         THEN /\ result' = parse_resume_except("unhashable type")
              /\ pc' = "done"
       ELSE /\ result' = result
            /\ pc' = select_provider(provider)
    \* _validate_file: seek(0, 2), tell(), seek(0)
    /\ stream' = IF file.seekRaises THEN stream ELSE [stream EXCEPT !.offset = 0]
    /\ UNCHANGED <<file, provider, env, attempted, extracted, outsideParse>>

\* EnhancedResumeParsingService._parse_with_spacy
parse_with_spacy ==
    /\ pc = "spacy_nlp"
    /\ attempted' = Append(attempted, "spacy_nlp")
    /\ extracted' = Append(extracted,
                       [provider |-> "spacy_nlp",
                        out |-> spacy_extract_text_from_file(file, env)])
    /\ stream' = read_file(seek_start(stream), "spacy_nlp", file,
                           spacy_extract_text_from_file(file, env))
    /\ IF spacy_raises(file, env)
         THEN /\ pc' = spacy_fallback
              /\ result' = result
         ELSE /\ pc' = "done"
              /\ result' = spacy_parse_resume(file, env)
    /\ UNCHANGED <<file, provider, env, outsideParse>>

\* EnhancedResumeParsingService._parse_with_ocr_space
parse_with_ocr_space ==
    /\ pc = "ocr_space"
    /\ attempted' = Append(attempted, "ocr_space")
    /\ IF env.cloud.kind = "no_key"
         THEN /\ pc' = ocr_space_fallback
              /\ UNCHANGED <<result, extracted, stream>>
       ELSE IF env.cloud.kind # "parsed"
         THEN /\ pc' = ocr_space_fallback
              /\ extracted' = Append(extracted,
                                [provider |-> "ocr_space", out |-> Raised(env.cloud.kind)])
              /\ stream' = read_file(seek_start(stream), "ocr_space", file,
                                     Raised(env.cloud.kind))
              /\ result' = result
       ELSE /\ extracted' = Append(extracted,
                                [provider |-> "ocr_space", out |-> Returned(env.cloud.text)])
            /\ stream' = read_file(seek_start(stream), "ocr_space", file,
                                   Returned(env.cloud.text))
            /\ IF env.cloud.text.raw = 0
                 THEN /\ pc' = ocr_space_fallback
                      /\ result' = result
                 ELSE /\ pc' = "done"
                      /\ result' = Success(with_provider(parse_text_content(env.cloud.text), "ocr_space"),
                                           env.cloud.text, "ocr_space")
    /\ UNCHANGED <<file, provider, env, outsideParse>>

\* EnhancedResumeParsingService._parse_with_local_ocr
parse_with_local_ocr ==
    /\ pc = "local_ocr"
    /\ attempted' = Append(attempted, "local_ocr")
    /\ LET ext == file_ext(file.filename)
           out == extract_text_with_tesseract(env)
       IN IF ext \notin IMAGE_EXTENSIONS /\ ext # "pdf"
            THEN /\ pc' = local_ocr_fallback
                 /\ stream' = seek_start(stream)
                 /\ UNCHANGED <<result, extracted>>
          ELSE /\ extracted' = Append(extracted, [provider |-> "local_ocr", out |-> out])
               /\ stream' = read_file(seek_start(stream), "local_ocr", file, out)
               /\ IF out.raises \/ insufficient(out.text, MIN_TEXT_CHARS)
                    THEN /\ pc' = local_ocr_fallback
                         /\ result' = result
                    ELSE /\ pc' = "done"
                         /\ result' = Success(with_provider(parse_text_content(out.text), "local_ocr"),
                                              out.text, "local_ocr")
    /\ UNCHANGED <<file, provider, env, outsideParse>>

\* EnhancedResumeParsingService._parse_with_text_extraction
parse_with_text_extraction ==
    /\ pc = "text_extraction"
    /\ attempted' = Append(attempted, "text_extraction")
    /\ LET out == plain_extract(file, env)
       IN /\ extracted' = Append(extracted, [provider |-> "text_extraction", out |-> out])
          /\ stream' = read_file(seek_start(stream), "text_extraction", file, out)
          /\ pc' = "done"
          /\ result' =
               IF out.raises THEN Failure("Text extraction failed: ", out.msg)
               ELSE IF insufficient(out.text, MIN_TEXT_CHARS)
                 THEN Failure("Text extraction failed: ", "No text content extracted")
               ELSE Success(with_provider(parse_text_content(out.text), "text_extraction"),
                            out.text, "text_extraction")
    /\ UNCHANGED <<file, provider, env, outsideParse>>

(***************************************************************************)
(* Matching engine (placeholder state while a parse request runs)          *)
(***************************************************************************)
IdleMatch ==
    /\ candidate = <<>>
    /\ job = <<>>
    /\ models_fitted = FALSE
    /\ description_vectorizer = <<>>
    /\ skill_vectorizer = <<>>
    /\ match = [kind |-> "none"]
    /\ op = [added |-> FALSE, before |-> 0, current |-> FALSE]

\* no ranking was asked for
NoRanking == [op |-> "none", pool |-> <<>>, limit |-> 0, results |-> <<>>, matches |-> <<>>]
\* no earlier parse request
NoPrevious == [called |-> FALSE, result |-> NoResult, cloud |-> DefaultCloud]
IdleRank == ranking = NoRanking /\ previous = NoPrevious
\* no text was handed to the field extractors
NotParsed ==
    [provider |-> "", full_name |-> "", email |-> "", phone |-> "", skills |-> 0,
     education |-> 0, experience |-> 0, summary |-> 0,
     confidence_score |-> 0, completeness_score |-> 0]
NoGrowth == [added |-> FALSE, spacy_nlp |-> 0, basic_extraction |-> 0]
IdleScores == doc = <<>> /\ parsed = NotParsed /\ growth = NoGrowth
\* no engine call is in progress
IdleThreads == fitters = <<>> /\ scorer = <<>>
\* no skill extraction has run
IdleSkills == skill_list = <<>>
\* no sequence of fit_models calls is recorded
IdleFit == fit_log = <<>>
\* the resume routes have received no request: db.create_all() leaves the
\* resumes table empty
IdleResumes == resumes = {} /\ upload_dir = 0 /\ requests = <<>> /\ latest = 0

(***************************************************************************)
(* Parse requests: every file, provider argument and library answer.  An   *)
(* answer that the request cannot consult is fixed to a default.           *)
(***************************************************************************)
InitParse ==
    /\ file \in [filename : FileNames, size : FileSizes, seekRaises : BOOLEAN]
    /\ provider \in ProviderArgs
    /\ LET ext == file_ext(file.filename)
           ok == validate_file(file) /\ provider # UNHASHABLE
           sel == select_provider(provider)
           isDoc == ext = "pdf" \/ ext \in DOC_EXTENSIONS
       IN env \in [doc : IF ok /\ isDoc THEN Outcomes ELSE {DefaultOutcome},
                   raw : IF ok /\ ~isDoc THEN Outcomes ELSE {DefaultOutcome},
                   ocr : IF ok /\ sel \in {"ocr_space", "local_ocr"}
                               /\ (ext \in IMAGE_EXTENSIONS \/ ext = "pdf")
                           THEN Outcomes ELSE {DefaultOutcome},
                   spacyOcr : IF ok /\ sel = "spacy_nlp" /\ ext \in IMAGE_EXTENSIONS
                                THEN Outcomes ELSE {DefaultOutcome},
                   cloud : IF ok /\ sel = "ocr_space" THEN CloudOutcomes ELSE {DefaultCloud},
                   nlpRaises : IF ok /\ sel = "spacy_nlp" THEN BOOLEAN ELSE {FALSE},
                   handlerRaises : IF ok /\ sel = "spacy_nlp" THEN BOOLEAN ELSE {FALSE}]
    /\ pc = "parse_resume"
    /\ attempted = <<>>
    /\ extracted = <<>>
    /\ result = NoResult
    /\ stream = NewStream
    /\ IdleMatch
    /\ IdleRank
    /\ IdleScores
    /\ IdleThreads
    /\ IdleSkills
    /\ IdleFit
    /\ IdleResumes

NextParse ==
    \/ parse_resume
    \/ parse_with_spacy
    \/ parse_with_ocr_space
    \/ parse_with_local_ocr
    \/ parse_with_text_extraction

SpecParse == InitParse /\ [][NextParse]_vars

(***************************************************************************)
(* Two parse requests for the same bytes, filename and provider argument   *)
(***************************************************************************)
\* what the OCR.space call of a second request can answer: the environment
\* may have lost or gained the API key, the call may fail or succeed; a
\* call that succeeds twice reads the same text from the same bytes
CloudChanges(cloud) ==
    {cloud, [kind |-> "no_key", text |-> EmptyText],
     [kind |-> "http_error", text |-> EmptyText],
     [kind |-> "parsed",
      text |-> IF cloud.kind = "parsed" THEN cloud.text ELSE DefaultOutcome.text]}

\* parse_resume is called again with the same file content, filename and
\* provider; the extraction libraries answer as before
parse_again ==
    /\ pc = "done"
    /\ ~previous.called
    /\ previous' = [called |-> TRUE, result |-> result, cloud |-> env.cloud]
    /\ \E cloud \in CloudChanges(env.cloud) : env' = [env EXCEPT !.cloud = cloud]
    /\ pc' = "parse_resume"
    /\ attempted' = <<>>
    /\ extracted' = <<>>
    /\ result' = NoResult
    /\ stream' = [stream EXCEPT !.reads = <<>>]
    /\ UNCHANGED <<file, provider, matchVars, rankVars, scoreVars, threadVars,
                   skillVars, resumeVars, fitVars>>

NextReparse ==
    \/ NextParse
    \/ parse_again

SpecReparse == InitParse /\ [][NextReparse]_vars

(***************************************************************************)
(* Properties of a parse request                                           *)
(***************************************************************************)
EightKeys == {"personal_info", "contact_info", "summary", "skills", "education",
              "work_experience", "domain_expertise", "parsing_metadata"}

\* position of a provider in the chain NLP, cloud OCR, local OCR, text extraction
ChainIndex(p) ==
    CASE p = "spacy_nlp" -> 1
      [] p = "ocr_space" -> 2
      [] p = "local_ocr" -> 3
      [] p = "text_extraction" -> 4

Finished == pc = "done"
Hashable == provider # UNHASHABLE
NlpSelected == Hashable /\ select_provider(provider) = "spacy_nlp"
PlainTextExtractable ==
    LET out == plain_extract(file, env) IN ~out.raises /\ ~insufficient(out.text, MIN_TEXT_CHARS)
NonEmptyError == result.error[1] # "" \/ result.error[2] # ""

\* C1: for a file that passes validation and whose plain text extraction
\* would succeed, a request that selects the NLP provider ends with
\* success = true, however the NLP provider fails.
C1_FallbackCompleteness ==
    (Finished /\ validate_file(file) /\ NlpSelected /\ PlainTextExtractable)
        => result.success

C3_NeverRaises ==
    /\ result.kind # "raised"
    /\ Finished => /\ result.kind = "record"
                   /\ ~result.success => NonEmptyError

C3_Witness ==
    Finished /\ validate_file(file) /\ ~Hashable /\ ~result.success

NameErrors == {"Resume parsing failed: ", "Invalid file format or size"}

C7_InsufficientIsFailure ==
    Finished =>
      \A i \in 1..Len(extracted) :
        LET x == extracted[i] IN
        (~x.out.raises /\ x.out.text.strip < MIN_TEXT_CHARS)
          => /\ ~(result.success /\ result.provider = x.provider)
             /\ x.provider # "text_extraction"
                  => attempted[Len(attempted)] # x.provider

(***************************************************************************)
(* Job matching engine: exact arithmetic                                   *)
(***************************************************************************)
RECURSIVE gcd(_, _)
gcd(a, b) == IF b = 0 THEN a ELSE gcd(b, a % b)

\* the rational n/d in lowest terms, d > 0
Q(n, d) ==
    LET g == gcd(IF n < 0 THEN 0 - n ELSE n, d) IN
    IF g = 0 THEN <<0, 1>> ELSE <<n \div g, d \div g>>

QAdd(a, b) == Q(a[1] * b[2] + b[1] * a[2], a[2] * b[2])
QSub(a, b) == Q(a[1] * b[2] - b[1] * a[2], a[2] * b[2])
QMul(a, b) == Q(a[1] * b[1], a[2] * b[2])
QLe(a, b) == a[1] * b[2] <= b[1] * a[2]
QLt(a, b) == a[1] * b[2] < b[1] * a[2]
QMax(a, b) == IF QLe(a, b) THEN b ELSE a
QMin(a, b) == IF QLe(a, b) THEN a ELSE b
QInt(n) == <<n, 1>>
QOne == <<1, 1>>
QZero == <<0, 1>>

\* the sum of a sequence of rationals
RECURSIVE QSum(_)
QSum(s) == IF s = <<>> THEN QZero ELSE QAdd(s[1], QSum(Tail(s)))

\* round(x, 3) in thousandths (ties to even), for x >= 0
round3(x) ==
    LET n == 1000 * x[1]
        q == n \div x[2]
        r == n % x[2]
    IN IF 2 * r < x[2] THEN q
       ELSE IF 2 * r > x[2] THEN q + 1
       ELSE IF q % 2 = 0 THEN q ELSE q + 1

\* a rounded score (thousandths) as a rational
QMilli(m) == Q(m, 1000)

Range(s) == {s[i] : i \in 1..Len(s)}

(***************************************************************************)
(* Record fields that may be missing (dict.get default) or None            *)
(***************************************************************************)
\* a key holding a value, a missing key, a key holding None
Val(v) == [tag |-> "val", v |-> v]
Absent == [tag |-> "absent"]
None == [tag |-> "none"]

\* d.get(key, default)
get(field, default) == IF field.tag = "absent" THEN Val(default) ELSE field

\* str.lower() word by word
lower_words(ws) == [i \in 1..Len(ws) |-> lower(ws[i])]

(***************************************************************************)
(* SemanticJobMatchingEngine: tables of __init__                           *)
(***************************************************************************)
\* skill_weights, in hundredths; 70 is the .get default
skill_weights(category) ==
    CASE category = "programming_languages" -> 100
      [] category = "web_development" -> 90
      [] category = "data_science" -> 95
      [] category = "databases" -> 80
      [] category = "cloud_technologies" -> 85
      [] category = "mobile_development" -> 80
      [] category = "design" -> 70
      [] category = "project_management" -> 75
      [] category = "soft_skills" -> 60
      [] category = "cybersecurity" -> 90
      [] category = "devops" -> 85
      [] OTHER -> 70

\* category.lower().replace(' ', '_') on the categories the model uses
normalize_category(c) ==
    CASE c = "Programming Languages" -> "programming_languages"
      [] c = "Soft Skills" -> "soft_skills"
      [] c = "Technical" -> "technical"
      [] OTHER -> c

\* level_scores of _calculate_skill_level_match; 2 is the .get default
level_scores(level) ==
    CASE level = "beginner" -> 1
      [] level = "intermediate" -> 2
      [] level = "advanced" -> 3
      [] level = "expert" -> 4
      [] OTHER -> 2

\* a skill record without a 'name' key
NO_NAME == "<no name>"
\* a proficiency_level or experience level that is None
NONE_LEVEL == "<None>"
\* a text field of a work experience entry that is None
NONE_TEXT == <<"<None>">>

(***************************************************************************)
(* _calculate_skill_level_match                                            *)
(***************************************************************************)
\* variant: a candidate below the requirement loses 0.5 per level
calculate_skill_level_match_half(candidate_skill, job_skill) ==
    LET candidate_score == level_scores(lower(candidate_skill.proficiency_level))
        required_score == level_scores(lower(job_skill.proficiency_level))
    IN IF NONE_LEVEL \in {candidate_skill.proficiency_level, job_skill.proficiency_level}
         THEN Q(1, 2)
       ELSE IF candidate_score >= required_score THEN QOne
       ELSE QMax(QZero, QSub(QOne, Q((required_score - candidate_score) * 50, 100)))

calculate_skill_level_match(candidate_skill, job_skill) ==
    LET candidate_score == level_scores(lower(candidate_skill.proficiency_level))
        required_score == level_scores(lower(job_skill.proficiency_level))
    IN \* None.lower() raises; the except clause answers 0.5
       IF NONE_LEVEL \in {candidate_skill.proficiency_level, job_skill.proficiency_level}
         THEN Q(1, 2)
       ELSE IF candidate_score >= required_score THEN QOne
       ELSE QMax(QZero, QSub(QOne, Q((required_score - candidate_score) * 25, 100)))

(***************************************************************************)
(* _calculate_skill_match                                                  *)
(***************************************************************************)
\* the keys of {skill['name'].lower(): skill for skill in skills}, in
\* insertion order
RECURSIVE dict_keys(_)
dict_keys(skills) ==
    IF skills = <<>> THEN <<>>
    ELSE LET before == dict_keys(SubSeq(skills, 1, Len(skills) - 1))
             k == lower(skills[Len(skills)].name)
         IN IF k \in Range(before) THEN before ELSE Append(before, k)

\* the value of that dictionary at k: the last record with that name
dict_value(skills, k) ==
    LET last == CHOOSE i \in 1..Len(skills) :
                    /\ lower(skills[i].name) = k
                    /\ \A j \in (i + 1)..Len(skills) : lower(skills[j].name) # k
    IN skills[last]

\* the two records of _calculate_skill_match that carry no match lists
skill_failure(status) ==
    [score |-> 0, status |-> status, matched_skills |-> <<>>,
     missing_skills |-> <<>>, coverage_ratio |-> 0]

\* variant: the mean alone, without the coverage ratio
skill_overall_mean(skill_scores, n_matched, n_job_skills) ==
    IF skill_scores # <<>>
      THEN QMul(QSum(skill_scores), Q(1, Len(skill_scores)))
      ELSE QZero
\* the overall skill score from the weighted scores of the matched skills
skill_overall(skill_scores, n_matched, n_job_skills) ==
    IF skill_scores # <<>>
      THEN LET avg_skill_score == QMul(QSum(skill_scores), Q(1, Len(skill_scores)))
               coverage_ratio == Q(n_matched, n_job_skills)
           IN QMul(avg_skill_score, coverage_ratio)
      ELSE QZero

calculate_skill_match(c, j) ==
    LET candidate_skills == c.skills
        job_skills == j.required_skills
    IN
    IF candidate_skills = <<>> \/ job_skills = <<>> THEN skill_failure("insufficient")
    ELSE IF \E i \in 1..Len(candidate_skills) : candidate_skills[i].name = NO_NAME
        THEN skill_failure("error")
    ELSE IF \E i \in 1..Len(job_skills) : job_skills[i].name = NO_NAME
        THEN skill_failure("error")
    ELSE
      LET candidate_keys == Range(dict_keys(candidate_skills))
          job_keys == dict_keys(job_skills)
          IsMatched(k) == k \in candidate_keys
          IsMissing(k) == k \notin candidate_keys
          matched == SelectSeq(job_keys, IsMatched)
          missing == SelectSeq(job_keys, IsMissing)
          weighted(k) ==
              LET job_skill == dict_value(job_skills, k)
                  candidate_skill == dict_value(candidate_skills, k)
                  category == normalize_category(job_skill.category)
              IN QMul(calculate_skill_level_match(candidate_skill, job_skill),
                      Q(skill_weights(category), 100))
          skill_scores == [i \in 1..Len(matched) |-> weighted(matched[i])]
      IN [score |-> round3(skill_overall(skill_scores, Len(matched), Len(job_skills))),
          status |-> "ok",
          matched_skills |-> matched,
          missing_skills |-> missing,
          coverage_ratio |-> round3(Q(Len(matched), Len(job_skills)))]

(***************************************************************************)
(* _locations_compatible, _calculate_location_match                        *)
(***************************************************************************)
\* loc.replace(',', ' ').split() of both, as sets, have a common word
locations_compatible(loc1, loc2) ==
    LET loc1_parts == Range(loc1) \ {","}
        loc2_parts == Range(loc2) \ {","}
    IN loc1_parts \cap loc2_parts # {}

component_result(score, match_type) ==
    [score |-> score, match_type |-> match_type]

\* job.get('remote_ok', False) is true
truthy(flag) == flag = "True"

\* variant: the missing-data check ahead of the remote check
calculate_location_match_data_first(c, j) ==
    LET cl == get(c.contact_info.location, <<>>)
        jl == get(j.location, <<>>)
    IN
    IF cl.tag = "none" \/ jl.tag = "none" THEN component_result(0, "error")
    ELSE
      LET candidate_location == lower_words(cl.v)
          job_location == lower_words(jl.v)
      IN IF candidate_location = <<>> \/ job_location = <<>>
           THEN component_result(500, "insufficient")
         ELSE IF truthy(j.remote_ok) THEN component_result(1000, "remote")
         ELSE IF candidate_location = job_location THEN component_result(1000, "exact")
         ELSE IF locations_compatible(candidate_location, job_location)
           THEN component_result(800, "compatible")
         ELSE component_result(200, "different")
calculate_location_match(c, j) ==
    LET cl == get(c.contact_info.location, <<>>)
        jl == get(j.location, <<>>)
    IN
    IF cl.tag = "none" \/ jl.tag = "none" THEN component_result(0, "error")
    ELSE
      LET candidate_location == lower_words(cl.v)
          job_location == lower_words(jl.v)
      IN IF truthy(j.remote_ok) THEN component_result(1000, "remote")
         ELSE IF candidate_location = <<>> \/ job_location = <<>>
           THEN component_result(500, "insufficient")
         ELSE IF candidate_location = job_location THEN component_result(1000, "exact")
         ELSE IF locations_compatible(candidate_location, job_location)
           THEN component_result(800, "compatible")
         ELSE component_result(200, "different")

(***************************************************************************)
(* Experience: _parse_duration_to_years, _calculate_years_of_experience    *)
(***************************************************************************)
\* the year datetime.now() reports
CurrentYear == 2026

\* A duration string is the sequence of its phrases: 'N years', 'N months',
\* a year range 'YYYY sep YYYY|present', or other words.  '' is <<>>.
Phrase(kind, n) == [kind |-> kind, n |-> n, to |-> 0, sep |-> "", present |-> FALSE]
RangePhrase(from, sep, to, present) ==
    [kind |-> "range", n |-> from, to |-> to, sep |-> sep, present |-> present]

\* of the separators the model uses, those that the character class of
\* date_pattern accepts: the hyphen, not the en dash
DATE_SEPARATORS == {"-"}

\* re.search finds the first phrase of the string that the pattern matches
parse_duration_to_years(duration) ==
    LET IsYears(ph) == ph.kind = "years"
        IsMonths(ph) == ph.kind = "months"
        IsRange(ph) == ph.kind = "range" /\ ph.sep \in DATE_SEPARATORS
        year_match == SelectSeq(duration, IsYears)
        month_match == SelectSeq(duration, IsMonths)
        date_match == SelectSeq(duration, IsRange)
    IN IF duration = <<>> THEN QZero
       ELSE IF year_match # <<>> THEN QInt(year_match[1].n)
       ELSE IF month_match # <<>> THEN Q(month_match[1].n, 12)
       ELSE IF date_match # <<>>
         THEN LET start_year == date_match[1].n
                  end_year == IF date_match[1].present THEN CurrentYear
                              ELSE date_match[1].to
              IN QMax(QZero, QInt(end_year - start_year))
       ELSE QOne

calculate_years_of_experience(experience) ==
    QSum([i \in 1..Len(experience) |-> parse_duration_to_years(experience[i].duration)])

determine_experience_level(years) ==
    IF QLt(years, QInt(1)) THEN "entry"
    ELSE IF QLt(years, QInt(3)) THEN "junior"
    ELSE IF QLt(years, QInt(6)) THEN "mid"
    ELSE IF QLt(years, QInt(10)) THEN "senior"
    ELSE IF QLt(years, QInt(15)) THEN "lead"
    ELSE "principal"

\* experience_levels; 2 is the .get default
experience_levels(level) ==
    CASE level = "entry" -> 0
      [] level = "junior" -> 1
      [] level = "mid" -> 2
      [] level = "senior" -> 3
      [] level = "lead" -> 4
      [] level = "principal" -> 5
      [] level = "director" -> 6
      [] OTHER -> 2

calculate_level_match(candidate_level, required_level) ==
    LET candidate_score == experience_levels(candidate_level)
        required_score == experience_levels(required_level)
    IN IF candidate_score >= required_score
         THEN IF candidate_score - required_score <= 1 THEN QOne
              ELSE QMax(Q(7, 10),
                        QSub(QOne, Q(candidate_score - required_score - 1, 10)))
         ELSE QMax(QZero, QSub(QOne, Q((required_score - candidate_score) * 2, 10)))

\* a in b for two words: b contains a as a substring
contains(b, a) ==
    a = b \/ <<a, b>> \in {<<"tech", "fintech">>, <<"finance", "finances">>,
                          <<"tech", "technology">>}

\* job_industry in (description + ' ' + company).lower(), job_industry one word
\* variant: the entry's text is compared as written, without .lower()
mentions_case_sensitive(exp, industry) ==
    LET text == exp.description \o exp.company
    IN \E i \in 1..Len(text) : contains(text[i], industry)

mentions(exp, industry) ==
    LET text == lower_words(exp.description \o exp.company)
    IN \E i \in 1..Len(text) : contains(text[i], industry)

\* variant: without the cap at 1.0
industry_score_uncapped(industry_matches, n_entries) ==
    IF industry_matches > 0
      THEN QAdd(Q(industry_matches, n_entries), Q(3, 10))
      ELSE Q(3, 10)
\* the score for a number of mentioning entries
industry_score_of(industry_matches, n_entries) ==
    IF industry_matches > 0
      THEN QMin(QOne, QAdd(Q(industry_matches, n_entries), Q(3, 10)))
      ELSE Q(3, 10)

\* industry: job.get('industry', '') as a tagged word; None and '' are falsy
calculate_industry_experience_match(experience, industry) ==
    IF industry.tag = "none" \/ industry.v = "" \/ experience = <<>> THEN Q(5, 10)
    \* str + None raises TypeError; the except clause answers 0.5
    ELSE IF \E i \in 1..Len(experience) : experience[i].company = NONE_TEXT THEN Q(5, 10)
    ELSE LET job_industry == lower(industry.v)
             hits == {i \in 1..Len(experience) : mentions(experience[i], job_industry)}
         IN industry_score_of(Cardinality(hits), Len(experience))

experience_error ==
    [score |-> 0, status |-> "error", candidate_years |-> QZero, candidate_level |-> "",
     years_score |-> 0, level_score |-> 0, industry_score |-> 0]

\* the years score of _calculate_experience_match
years_score_of(candidate_years, required_years, max_years) ==
    IF QLe(QInt(required_years), candidate_years)
      THEN IF QLe(candidate_years, QInt(max_years)) THEN QOne
           ELSE QMax(Q(7, 10),
                     QSub(QOne, QMul(QSub(candidate_years, QInt(max_years)), Q(5, 100))))
      ELSE QMax(QZero,
                QSub(QOne, QMul(QSub(QInt(required_years), candidate_years), Q(15, 100))))

calculate_experience_match(c, j) ==
    LET candidate_experience == c.work_experience
        job_requirements == j.experience_requirements
        candidate_years == calculate_years_of_experience(candidate_experience)
        required_years == get(job_requirements.min_years, 0)
        max_years == get(job_requirements.max_years, 20)
        candidate_level == determine_experience_level(candidate_years)
        level == get(job_requirements.level, "mid")
        required_level == IF level.tag = "none" THEN NONE_LEVEL ELSE level.v
    IN
    \* comparing a number with None raises TypeError
    IF required_years.tag = "none" THEN experience_error
    ELSE IF QLe(QInt(required_years.v), candidate_years) /\ max_years.tag = "none"
        THEN experience_error
    ELSE
      LET years_score == years_score_of(candidate_years, required_years.v, max_years.v)
          level_score == calculate_level_match(candidate_level, required_level)
          industry_score == calculate_industry_experience_match(
                                candidate_experience, get(j.industry, ""))
          overall_score == QAdd(QAdd(QMul(years_score, Q(4, 10)), QMul(level_score, Q(4, 10))),
                                QMul(industry_score, Q(2, 10)))
      IN [score |-> round3(overall_score), status |-> "ok",
          candidate_years |-> candidate_years, candidate_level |-> candidate_level,
          years_score |-> round3(years_score), level_score |-> round3(level_score),
          industry_score |-> round3(industry_score)]

(***************************************************************************)
(* _calculate_domain_match                                                 *)
(***************************************************************************)
domain_compatibility(d) ==
    CASE d = "technology" -> {"technology", "finance", "healthcare", "education", "e-commerce"}
      [] d = "finance" -> {"finance", "banking", "technology", "consulting"}
      [] d = "healthcare" -> {"healthcare", "technology", "consulting"}
      [] d = "education" -> {"education", "technology", "government"}
      [] d = "retail" -> {"retail", "e-commerce", "technology"}
      [] d = "manufacturing" -> {"manufacturing", "technology", "consulting"}
      [] d = "consulting" -> {"consulting", "technology", "finance", "healthcare"}
      [] d = "government" -> {"government", "technology", "defense"}
      [] d = "defense" -> {"defense", "government", "technology"}
      [] d = "banking" -> {"banking", "finance", "technology"}
      [] d = "automobile" -> {"automobile", "manufacturing", "technology"}
      [] d = "e-commerce" -> {"e-commerce", "retail", "technology"}
      [] OTHER -> {}

calculate_domain_match(c, j) ==
    LET candidate_domains == c.domain_expertise
        industry == get(j.industry, "")
    IN IF industry.tag = "none" THEN component_result(0, "error")
       ELSE LET job_domain == lower(industry.v)
                lowered == {lower(candidate_domains[i]) : i \in 1..Len(candidate_domains)}
            IN IF candidate_domains = <<>> \/ job_domain = ""
                 THEN component_result(500, "insufficient")
               ELSE IF job_domain \in lowered THEN component_result(1000, "direct")
               ELSE IF lowered \cap domain_compatibility(job_domain) # {}
                 THEN component_result(700, "compatible")
               ELSE component_result(300, "none")

(***************************************************************************)
(* _prepare_candidate_text, _prepare_job_text, _calculate_keyword_similarity,*)
(* _calculate_semantic_match                                               *)
(***************************************************************************)
RECURSIVE concat(_)
concat(seqs) == IF seqs = <<>> THEN <<>> ELSE seqs[1] \o concat(Tail(seqs))

\* [skill.get('name', '') for skill in skills]
skill_names(skills) ==
    [i \in 1..Len(skills) |-> IF skills[i].name = NO_NAME THEN "" ELSE skills[i].name]

\* ' '.join(text_parts) is the empty string
is_empty_text(parts) == parts = <<>> \/ parts = <<"">>

\* text.lower().split() as a set
split_words(parts) == Range(lower_words(parts)) \ {""}

prepare_candidate_text(c) ==
    c.summary
      \o concat([i \in 1..Len(c.work_experience) |->
                    c.work_experience[i].description \o c.work_experience[i].job_title])
      \o skill_names(c.skills)
      \o concat([i \in 1..Len(c.education) |->
                    c.education[i].field_of_study \o c.education[i].degree])

prepare_job_text(j) ==
    j.title \o j.description \o j.requirements \o skill_names(j.required_skills)
      \o (IF j.industry.tag = "val" /\ j.industry.v # "" THEN <<j.industry.v>> ELSE <<>>)

stop_words == {"the", "and", "or", "but", "in", "on", "at", "to", "for", "of", "with", "by"}

calculate_keyword_similarity(text1, text2) ==
    LET words1 == split_words(text1) \ stop_words
        words2 == split_words(text2) \ stop_words
    IN IF words1 = {} \/ words2 = {} THEN QZero
       ELSE Q(Cardinality(words1 \cap words2), Cardinality(words1 \cup words2))

semantic_result(score, method) == [score |-> score, method |-> method]

\* variant: a raising transform is reported as the component's error
calculate_semantic_match_no_fallback(c, j, fitted, answer) ==
    LET candidate_text == prepare_candidate_text(c)
        job_text == prepare_job_text(j)
    IN IF is_empty_text(candidate_text) \/ is_empty_text(job_text)
         THEN semantic_result(0, "insufficient")
       ELSE IF fitted
         THEN IF answer.raises THEN semantic_result(0, "error")
              ELSE semantic_result(answer.similarity, "tfidf_cosine")
       ELSE semantic_result(round3(calculate_keyword_similarity(candidate_text, job_text)),
                            "keyword_based")
\* answer: what description_vectorizer.transform and cosine_similarity give
calculate_semantic_match(c, j, fitted, answer) ==
    LET candidate_text == prepare_candidate_text(c)
        job_text == prepare_job_text(j)
    IN IF is_empty_text(candidate_text) \/ is_empty_text(job_text)
         THEN semantic_result(0, "insufficient")
       ELSE IF fitted /\ ~answer.raises THEN semantic_result(answer.similarity, "tfidf_cosine")
       ELSE semantic_result(round3(calculate_keyword_similarity(candidate_text, job_text)),
                            "keyword_based")

(***************************************************************************)
(* _calculate_confidence                                                   *)
(***************************************************************************)
present(cond, tenths) == IF cond THEN Q(tenths, 10) ELSE QZero

calculate_confidence(c, j) ==
    LET req == j.experience_requirements
        candidate_completeness ==
            QSum(<<present(c.personal_info.full_name # <<>>, 1),
                   present(c.contact_info.email # <<>>, 1),
                   present(c.skills # <<>>, 3),
                   present(c.work_experience # <<>>, 3),
                   present(c.education # <<>>, 1),
                   present(c.summary # <<>>, 1)>>)
        job_completeness ==
            QSum(<<present(j.title # <<>>, 2),
                   present(j.description # <<>>, 3),
                   present(j.required_skills # <<>>, 3),
                   present(req.min_years.tag # "absent" \/ req.max_years.tag # "absent"
                             \/ req.level.tag # "absent", 1),
                   present(j.location.tag = "val" /\ j.location.v # <<>>, 1)>>)
    IN QMul(QAdd(candidate_completeness, job_completeness), Q(1, 2))

(***************************************************************************)
(* _generate_match_reasons                                                 *)
(***************************************************************************)
REASON_THRESHOLD == 700

generate_match_reasons(scores) ==
    LET reasons ==
          (IF scores.skills.score > REASON_THRESHOLD
             THEN <<"Strong skill match">> ELSE <<>>)
          \o (IF scores.experience.score > REASON_THRESHOLD
                THEN <<"Good experience match">> ELSE <<>>)
          \o (IF scores.domain.score > REASON_THRESHOLD
                THEN (IF scores.domain.match_type = "direct"
                        THEN <<"Direct industry experience match">>
                      ELSE IF scores.domain.match_type = "compatible"
                        THEN <<"Compatible industry background">>
                      ELSE <<>>)
                ELSE <<>>)
    IN IF reasons = <<>> THEN <<"Partial match based on available criteria">> ELSE reasons

(***************************************************************************)
(* calculate_match_score                                                   *)
(***************************************************************************)
\* the component weights, in hundredths
weights == [skills |-> 35, experience |-> 25, domain |-> 15, location |-> 10, semantic |-> 15]
Components == {"skills", "experience", "domain", "location", "semantic"}

calculate_match_score(c, j, fitted, answer) ==
    LET skill_score == calculate_skill_match(c, j)
        experience_score == calculate_experience_match(c, j)
        domain_score == calculate_domain_match(c, j)
        location_score == calculate_location_match(c, j)
        semantic_score == calculate_semantic_match(c, j, fitted, answer)
        overall_score ==
            QSum(<<QMul(QMilli(skill_score.score), Q(weights.skills, 100)),
                   QMul(QMilli(experience_score.score), Q(weights.experience, 100)),
                   QMul(QMilli(domain_score.score), Q(weights.domain, 100)),
                   QMul(QMilli(location_score.score), Q(weights.location, 100)),
                   QMul(QMilli(semantic_score.score), Q(weights.semantic, 100))>>)
    IN [kind |-> "scored",
        overall_score |-> round3(overall_score),
        confidence |-> round3(calculate_confidence(c, j)),
        breakdown |-> [skills |-> skill_score, experience |-> experience_score,
                       domain |-> domain_score, location |-> location_score,
                       semantic |-> semantic_score],
        match_reasons |-> generate_match_reasons(
                              [skills |-> skill_score, experience |-> experience_score,
                               domain |-> domain_score])]

(***************************************************************************)
(* fit_models and the TF-IDF vectorizers                                   *)
(***************************************************************************)
\* a TfidfVectorizer: whether fit() has completed, and its vocabulary_
Unfitted == [fitted |-> FALSE, vocabulary |-> {}]
Fitted(vocabulary) == [fitted |-> TRUE, vocabulary |-> vocabulary]

\* stop_words='english', on the words the model uses
english_stop_words == {"the", "and", "of", "with", "for", "in"}

\* the tokens the vectorizer's analyzer keeps: lowercased words of two or
\* more word characters that are not stop words
tfidf_tokens(parts) == split_words(parts) \ (english_stop_words \cup {","})

\* the documents fit_models builds for skill_vectorizer
skill_documents(candidates, jobs) ==
    [i \in 1..Len(candidates) |-> skill_names(candidates[i].skills)]
      \o [i \in 1..Len(jobs) |-> skill_names(jobs[i].required_skills)]

\* the documents fit_models builds for description_vectorizer
description_documents(candidates, jobs) ==
    [i \in 1..Len(candidates) |->
        candidates[i].summary
          \o concat([k \in 1..Len(candidates[i].work_experience) |->
                        candidates[i].work_experience[k].description])]
      \o [i \in 1..Len(jobs) |-> jobs[i].description \o jobs[i].requirements]

\* TfidfVectorizer.fit: ValueError on an empty vocabulary, and then the
\* vectorizer stays as it was
fit_raises(docs) == UNION {tfidf_tokens(docs[i]) : i \in 1..Len(docs)} = {}
fit(docs) == Fitted(UNION {tfidf_tokens(docs[i]) : i \in 1..Len(docs)})

\* the engine state fit_models leaves
\* variant: a fit adds its terms to the vocabulary the vectorizers hold
fit_models_result_incremental(candidates, jobs, sv, dv) ==
    LET all_skills == skill_documents(candidates, jobs)
        all_descriptions == description_documents(candidates, jobs)
    IN IF all_skills # <<>> /\ fit_raises(all_skills)
         THEN [skill_vectorizer |-> sv, description_vectorizer |-> dv,
               models_fitted |-> FALSE]
       ELSE LET sv2 == IF all_skills # <<>>
                         THEN Fitted(sv.vocabulary \cup fit(all_skills).vocabulary)
                       ELSE sv
            IN IF all_descriptions # <<>> /\ fit_raises(all_descriptions)
                 THEN [skill_vectorizer |-> sv2, description_vectorizer |-> dv,
                       models_fitted |-> FALSE]
               ELSE [skill_vectorizer |-> sv2,
                     description_vectorizer |->
                         IF all_descriptions # <<>>
                           THEN Fitted(dv.vocabulary
                                         \cup fit(all_descriptions).vocabulary)
                         ELSE dv,
                     models_fitted |-> TRUE]

fit_models_result(candidates, jobs, sv, dv) ==
    LET all_skills == skill_documents(candidates, jobs)
        all_descriptions == description_documents(candidates, jobs)
    IN IF all_skills # <<>> /\ fit_raises(all_skills)
         THEN [skill_vectorizer |-> sv, description_vectorizer |-> dv,
               models_fitted |-> FALSE]
       ELSE LET sv2 == IF all_skills # <<>> THEN fit(all_skills) ELSE sv
            IN IF all_descriptions # <<>> /\ fit_raises(all_descriptions)
                 THEN [skill_vectorizer |-> sv2, description_vectorizer |-> dv,
                       models_fitted |-> FALSE]
               ELSE [skill_vectorizer |-> sv2,
                     description_vectorizer |->
                         IF all_descriptions # <<>> THEN fit(all_descriptions) ELSE dv,
                     models_fitted |-> TRUE]

\* what transform and cosine_similarity can answer (thousandths, after
\* round): 0 for texts that share no vocabulary term, a value of [0, 1]
\* otherwise; transform raises NotFittedError on an unfitted vectorizer
cosine_answers(c, j, dv) ==
    LET shared == tfidf_tokens(prepare_candidate_text(c))
                    \cap tfidf_tokens(prepare_job_text(j)) \cap dv.vocabulary
    IN {[raises |-> ~dv.fitted, similarity |-> x] :
           x \in IF dv.fitted /\ shared # {} THEN {0, 500, 1000} ELSE {0}}

(***************************************************************************)
(* Matching: bounds and inputs                                             *)
(***************************************************************************)
MaxSkills == 2       \* length of a candidate's skill list
MaxExperience == 2   \* number of work experience entries

SeqsUpTo(S, n) == UNION {[1..k -> S] : k \in 0..n}

Skill(name, category, level) ==
    [name |-> name, category |-> category, proficiency_level |-> level]

CandidateSkillRecords ==
    {Skill(n, "technical", l) : n \in {"Python", "sql"},
                                l \in {"beginner", "Expert", NONE_LEVEL}}
      \cup {Skill(NO_NAME, "technical", "intermediate")}

JobSkillRecords ==
    {Skill("python", "Programming Languages", "intermediate"),
     Skill("python", "Soft Skills", "expert"),
     Skill("SQL", "Programming Languages", "expert"),
     Skill("SQL", "technical", "intermediate"),
     Skill("Python", "programming_languages", "beginner"),
     Skill(NO_NAME, "technical", "intermediate")}

Experience(duration, description, company) ==
    [duration |-> duration, description |-> description, company |-> company,
     job_title |-> <<"Engineer">>]

ExperienceEntries ==
    {Experience(<<Phrase("years", 2)>>, <<"Finance", "team">>, <<"Acme">>),
     Experience(<<Phrase("months", 6)>>, <<>>, <<"fintech">>),
     Experience(<<RangePhrase(1990, "-", 2024, FALSE)>>, <<"Software">>, <<"Acme">>),
     Experience(<<RangePhrase(2019, "en dash", 0, TRUE)>>, <<"Software">>, <<>>),
     Experience(<<>>, <<"Finance">>, <<>>)}

Requirements(min_years, max_years, level) ==
    [min_years |-> min_years, max_years |-> max_years, level |-> level]
NoRequirements == Requirements(Absent, Absent, Absent)

ExperienceRequirements ==
    {NoRequirements,
     Requirements(Val(5), Absent, Absent),
     Requirements(Val(0), Val(3), Val("senior")),
     Requirements(Val(1), Val(3), Val("junior")),
     Requirements(Absent, Absent, Val("director")),
     Requirements(None, Val(3), Val("mid")),
     Requirements(Val(0), None, None),
     Requirements(Val(40), Val(50), Val("entry"))}

Industries == {Absent, Val(""), Val("Finance"), Val("tech"),
               Val("Technology"), None}

\* location values are strings or missing keys: Job.location is a NOT NULL
\* column and no parser emits a null contact_info.location
CandidateLocations ==
    {Absent, Val(<<>>), Val(<<"Austin", ",", "TX">>), Val(<<"austin", ",", "tx">>),
     Val(<<"Dallas", ",", "TX">>), Val(<<"Boston">>)}
JobLocations ==
    {Absent, Val(<<>>), Val(<<"Austin", ",", "TX">>), Val(<<"Dallas", ",", "TX">>)}
RemoteFlags == {"True", "False", "absent"}

BaseCandidate ==
    [personal_info |-> [full_name |-> <<"Ann">>],
     contact_info |-> [email |-> <<"ann@example.org">>,
                       location |-> Val(<<"Austin", ",", "TX">>)],
     summary |-> <<"Software", "Engineer">>,
     skills |-> <<Skill("Python", "technical", "Expert")>>,
     education |-> <<[field_of_study |-> <<"Finance">>, degree |-> <<"bsc">>]>>,
     work_experience |-> <<Experience(<<Phrase("years", 2)>>, <<"Finance", "team">>, <<"Acme">>)>>,
     domain_expertise |-> <<"Finance">>]

BaseJob ==
    [title |-> <<"Software", "Engineer">>,
     description |-> <<"the", "Finance", "team">>,
     requirements |-> <<"Python", "and", "SQL">>,
     required_skills |-> <<Skill("python", "Programming Languages", "intermediate")>>,
     industry |-> Val("Finance"),
     location |-> Val(<<"Dallas", ",", "TX">>),
     remote_ok |-> "False",
     experience_requirements |-> Requirements(Val(1), Val(3), Val("junior"))]

\* candidate and job records that vary in their skill lists
SkillInputs ==
    {<<[BaseCandidate EXCEPT !.skills = cs], [BaseJob EXCEPT !.required_skills = js]>> :
        cs \in SeqsUpTo(CandidateSkillRecords, MaxSkills - 1),
        js \in SeqsUpTo(JobSkillRecords, 2)}

\* ... in work history, experience requirements and industry
ExperienceInputs ==
    {<<[BaseCandidate EXCEPT !.work_experience = we],
       [BaseJob EXCEPT !.experience_requirements = er, !.industry = ind]>> :
        we \in SeqsUpTo(ExperienceEntries, MaxExperience),
        er \in ExperienceRequirements,
        ind \in {Absent, Val("Finance"), None}}

\* ... in domain expertise and industry
DomainInputs ==
    {<<[BaseCandidate EXCEPT !.domain_expertise = de], [BaseJob EXCEPT !.industry = ind]>> :
        de \in SeqsUpTo({"Finance", "banking", "retail"}, 2),
        ind \in Industries}

\* ... in the two locations and the remote flag
LocationInputs ==
    {<<[BaseCandidate EXCEPT !.contact_info.location = cl],
       [BaseJob EXCEPT !.location = jl, !.remote_ok = r]>> :
        cl \in CandidateLocations, jl \in JobLocations, r \in RemoteFlags}

\* ... in work experience entries whose company is None
MalformedInputs ==
    {<<[BaseCandidate EXCEPT !.work_experience = we], BaseJob>> :
        we \in {<<Experience(<<Phrase("years", 2)>>, <<"Finance">>, NONE_TEXT)>>,
                <<Experience(<<Phrase("years", 2)>>, <<"Finance">>, <<"Acme">>),
                  Experience(<<Phrase("months", 6)>>, <<"Software">>, NONE_TEXT)>>}}

\* ... in which fields are filled in at all
FilledCandidate(have) ==
    [personal_info |-> [full_name |-> IF "name" \in have THEN <<"Ann">> ELSE <<>>],
     contact_info |-> [email |-> IF "email" \in have THEN <<"ann@example.org">> ELSE <<>>,
                       location |-> Absent],
     summary |-> IF "summary" \in have THEN <<"Software", "Engineer">> ELSE <<>>,
     skills |-> IF "skills" \in have THEN BaseCandidate.skills ELSE <<>>,
     education |-> IF "education" \in have THEN BaseCandidate.education ELSE <<>>,
     work_experience |-> IF "work" \in have THEN BaseCandidate.work_experience ELSE <<>>,
     domain_expertise |-> <<>>]

FilledJob(have) ==
    [title |-> IF "title" \in have THEN <<"Software", "Engineer">> ELSE <<>>,
     description |-> IF "description" \in have THEN <<"the", "Finance", "team">> ELSE <<>>,
     requirements |-> <<>>,
     required_skills |-> IF "required" \in have THEN BaseJob.required_skills ELSE <<>>,
     industry |-> Absent,
     location |-> IF "location" \in have THEN BaseJob.location ELSE Val(<<>>),
     remote_ok |-> "absent",
     experience_requirements |->
         IF "experience" \in have THEN BaseJob.experience_requirements ELSE NoRequirements]

CandidateFields == {"name", "email", "summary", "skills", "education", "work"}
JobFields == {"title", "description", "required", "experience", "location"}

CompletenessInputs ==
    {<<FilledCandidate(have), FilledJob(JobFields)>> : have \in SUBSET CandidateFields}
      \cup {<<FilledCandidate(CandidateFields), FilledJob(have)>> : have \in SUBSET JobFields}
      \cup {<<FilledCandidate({}), FilledJob({})>>}

MatchInputs ==
    SkillInputs \cup ExperienceInputs \cup DomainInputs \cup LocationInputs
      \cup MalformedInputs \cup CompletenessInputs

(***************************************************************************)
(* Matching: actions                                                       *)
(***************************************************************************)
\* no parse request is running
IdleParse ==
    /\ file = [filename |-> <<>>, size |-> 1024, seekRaises |-> FALSE]
    /\ provider = DEFAULT_PROVIDER
    /\ env = [doc |-> DefaultOutcome, raw |-> DefaultOutcome, ocr |-> DefaultOutcome,
              spacyOcr |-> DefaultOutcome, cloud |-> DefaultCloud,
              nlpRaises |-> FALSE, handlerRaises |-> FALSE]
    /\ pc = "idle"
    /\ attempted = <<>>
    /\ extracted = <<>>
    /\ result = NoResult
    /\ stream = NewStream

InitMatch ==
    /\ IdleParse
    /\ \E input \in MatchInputs :
          /\ candidate = input[1]
          /\ job = input[2]
    /\ models_fitted = FALSE
    /\ description_vectorizer = Unfitted
    /\ skill_vectorizer = Unfitted
    /\ match = [kind |-> "none"]
    /\ op = [added |-> FALSE, before |-> 0, current |-> FALSE]
    /\ IdleRank
    /\ IdleScores
    /\ IdleThreads
    /\ IdleSkills
    /\ IdleFit
    /\ IdleResumes

\* SemanticJobMatchingEngine.fit_models, called with this candidate and
\* this job or with two empty lists
fit_models ==
    /\ pc = "idle"
    /\ \E data \in {"current", "empty"} :
          LET candidates == IF data = "current" THEN <<candidate>> ELSE <<>>
              jobs == IF data = "current" THEN <<job>> ELSE <<>>
              after == fit_models_result(candidates, jobs, skill_vectorizer,
                                         description_vectorizer)
          IN /\ skill_vectorizer' = after.skill_vectorizer
             /\ description_vectorizer' = after.description_vectorizer
             /\ models_fitted' = after.models_fitted
    /\ op' = [op EXCEPT !.current = FALSE]
    /\ UNCHANGED <<outsideMatch, candidate, job, match>>

\* SemanticJobMatchingEngine.calculate_match_score
calculate ==
    /\ pc = "idle"
    /\ \E answer \in cosine_answers(candidate, job, description_vectorizer) :
          match' = calculate_match_score(candidate, job, models_fitted, answer)
    /\ op' = [op EXCEPT !.current = TRUE]
    /\ UNCHANGED <<outsideMatch, candidate, job, models_fitted,
                   description_vectorizer, skill_vectorizer>>

\* the candidate lacks the skill: no record of the list has that name
lacks(c, name) ==
    \A i \in 1..Len(c.skills) :
        c.skills[i].name = NO_NAME \/ lower(c.skills[i].name) # lower(name)

\* the job requires the skill
requires(j, name) ==
    \E i \in 1..Len(j.required_skills) :
        j.required_skills[i].name # NO_NAME /\ lower(j.required_skills[i].name) = lower(name)

\* list.insert(pos, record)
insert(list, pos, record) ==
    SubSeq(list, 1, pos) \o <<record>> \o SubSeq(list, pos + 1, Len(list))

\* a new parse of the candidate's resume yields one more skill record, of a
\* skill the job requires and the candidate lacked
add_skill ==
    /\ pc = "idle"
    /\ Len(candidate.skills) < MaxSkills
    /\ \E record \in CandidateSkillRecords, pos \in 0..Len(candidate.skills) :
          /\ record.name # NO_NAME
          /\ lacks(candidate, record.name)
          /\ requires(job, record.name)
          /\ candidate' = [candidate EXCEPT !.skills = insert(candidate.skills, pos, record)]
    /\ op' = [added |-> TRUE, before |-> calculate_skill_match(candidate, job).score,
              current |-> FALSE]
    /\ UNCHANGED <<outsideMatch, job, models_fitted, description_vectorizer,
                   skill_vectorizer, match>>

NextMatch ==
    \/ fit_models
    \/ calculate
    \/ add_skill

SpecMatch == InitMatch /\ [][NextMatch]_vars

(***************************************************************************)
(* find_best_matches, find_best_candidates                                 *)
(***************************************************************************)
MaxPool == 2         \* number of jobs or candidates one call ranks

\* the record appended for a pair whose match result is m; data is the job
\* ('job_data') or the candidate ('candidate_data')
match_entry(data, m) ==
    [data |-> data, match_score |-> m.overall_score, confidence |-> m.confidence,
     match_breakdown |-> m.breakdown, match_reasons |-> m.match_reasons]

\* matches.sort(key=lambda x: x['match_score'], reverse=True): list.sort is
\* stable, with reverse=True too
RECURSIVE sort_by_match_score(_)
sort_by_match_score(matches) ==
    IF matches = <<>> THEN <<>>
    ELSE LET front == sort_by_match_score(SubSeq(matches, 1, Len(matches) - 1))
             x == matches[Len(matches)]
             ahead == {i \in 1..Len(front) : front[i].match_score >= x.match_score}
         IN insert(front, Cardinality(ahead), x)

\* matches[:limit]: a negative limit counts from the end of the list
slice_to(matches, limit) ==
    LET stop == IF limit >= 0 THEN limit ELSE Len(matches) + limit
    IN SubSeq(matches, 1, IF stop > Len(matches) THEN Len(matches)
                          ELSE IF stop < 0 THEN 0 ELSE stop)

\* the list both functions return; results[i] is what calculate_match_score
\* returned for pool[i]
best_matches(pool, results, limit) ==
    LET scored == [i \in 1..Len(pool) |-> match_entry(pool[i], results[i])]
        Positive(e) == e.match_score > 0
    IN slice_to(sort_by_match_score(SelectSeq(scored, Positive)), limit)

\* a record of which every component scores 0.0: None location, None
\* industry, None min_years, no skills and no text
ZeroJob ==
    [title |-> <<>>, description |-> <<>>, requirements |-> <<>>,
     required_skills |-> <<>>, industry |-> None, location |-> None,
     remote_ok |-> "False",
     experience_requirements |-> Requirements(None, Absent, Absent)]

RankJobs ==
    {BaseJob,
     [BaseJob EXCEPT !.title = <<"software", "engineer">>],
     [BaseJob EXCEPT !.remote_ok = "True"],
     ZeroJob}

RankCandidates ==
    {BaseCandidate,
     [BaseCandidate EXCEPT !.personal_info.full_name = <<"Bob">>],
     [BaseCandidate EXCEPT !.skills = <<>>]}

\* limit comes from the request body as it is
Limits == {-1, 0, 1, 2, 10}

TransformAnswers == [raises : BOOLEAN, similarity : {0, 500, 1000}]

InitRank ==
    /\ IdleParse
    /\ candidate = BaseCandidate
    /\ job \in {BaseJob, ZeroJob}
    /\ models_fitted = FALSE
    /\ description_vectorizer = Unfitted
    /\ skill_vectorizer = Unfitted
    /\ match = [kind |-> "none"]
    /\ op = [added |-> FALSE, before |-> 0, current |-> FALSE]
    /\ IdleRank
    /\ IdleScores
    /\ IdleThreads
    /\ IdleSkills
    /\ IdleFit
    /\ IdleResumes

\* SemanticJobMatchingEngine.find_best_matches(candidate, jobs, limit); a
\* behaviour holds one ranking call
find_best_matches ==
    /\ pc = "idle"
    /\ ranking = NoRanking
    /\ \E jobs \in SeqsUpTo(RankJobs, MaxPool), limit \in Limits :
       \E answers \in [1..Len(jobs) -> TransformAnswers] :
          /\ \A i \in 1..Len(jobs) :
                answers[i] \in cosine_answers(candidate, jobs[i], description_vectorizer)
          /\ LET results == [i \in 1..Len(jobs) |->
                                calculate_match_score(candidate, jobs[i], models_fitted,
                                                      answers[i])]
             IN ranking' = [op |-> "find_best_matches", pool |-> jobs, limit |-> limit,
                            results |-> results,
                            matches |-> best_matches(jobs, results, limit)]
    /\ UNCHANGED outsideRank

\* SemanticJobMatchingEngine.find_best_candidates(job, candidates, limit)
find_best_candidates ==
    /\ pc = "idle"
    /\ ranking = NoRanking
    /\ \E candidates \in SeqsUpTo(RankCandidates, MaxPool), limit \in Limits :
       \E answers \in [1..Len(candidates) -> TransformAnswers] :
          /\ \A i \in 1..Len(candidates) :
                answers[i] \in cosine_answers(candidates[i], job, description_vectorizer)
          /\ LET results == [i \in 1..Len(candidates) |->
                                calculate_match_score(candidates[i], job, models_fitted,
                                                      answers[i])]
             IN ranking' = [op |-> "find_best_candidates", pool |-> candidates,
                            limit |-> limit, results |-> results,
                            matches |-> best_matches(candidates, results, limit)]
    /\ UNCHANGED outsideRank

NextRank ==
    \/ fit_models
    \/ find_best_matches
    \/ find_best_candidates

SpecRank == InitRank /\ [][NextRank]_vars

(***************************************************************************)
(* Field extraction: _extract_summary, _extract_basic_summary and the      *)
(* parsing_metadata scores of both parsers                                 *)
(***************************************************************************)
MaxLines == 3        \* number of lines of a resume text

\* round(x, 2) in hundredths (ties to even), for x >= 0
round2(x) ==
    LET n == 100 * x[1]
        q == n \div x[2]
        r == n % x[2]
    IN IF 2 * r < x[2] THEN q
       ELSE IF 2 * r > x[2] THEN q + 1
       ELSE IF q % 2 = 0 THEN q ELSE q + 1

\* A text is the sequence of its lines.  A line is a summary header (it
\* contains 'summary', 'objective', 'profile', ...), the header of another
\* section (it contains 'experience', 'education' or 'skills'), other text
\* of len characters, or an empty line.
Line(kind, len) == [kind |-> kind, len |-> len]
LineValues ==
    {Line("summary_header", 7), Line("section_header", 10),
     Line("text", 40), Line("text", 300), Line("blank", 0)}

\* len(sep.join(parts)) for a one-character separator
RECURSIVE joined_len(_)
joined_len(lens) ==
    IF lens = <<>> THEN 0
    ELSE IF Len(lens) = 1 THEN lens[1]
    ELSE lens[1] + 1 + joined_len(Tail(lens))

\* SpacyResumeParser._extract_summary: the loop over the lines, giving the
\* lengths of summary_lines
RECURSIVE summary_lines(_, _)
summary_lines(lines, in_summary) ==
    IF lines = <<>> THEN <<>>
    ELSE LET line == Head(lines)
         IN IF line.kind = "summary_header" THEN summary_lines(Tail(lines), TRUE)
            ELSE IF in_summary /\ line.kind = "section_header" THEN <<>>
            ELSE IF in_summary /\ line.len > 0
              THEN <<line.len>> \o summary_lines(Tail(lines), in_summary)
            ELSE summary_lines(Tail(lines), in_summary)

\* the length of the string _extract_summary returns
extract_summary(lines) == joined_len(summary_lines(lines, FALSE))

\* text.split('\n\n'): the lengths of the stripped paragraphs; current holds
\* the lines of the paragraph being read
RECURSIVE paragraphs(_, _)
paragraphs(lines, current) ==
    LET closed == IF current = <<>> THEN <<>> ELSE <<joined_len(current)>>
    IN IF lines = <<>> THEN closed
       ELSE IF Head(lines).kind = "blank" THEN closed \o paragraphs(Tail(lines), <<>>)
       ELSE paragraphs(Tail(lines), Append(current, Head(lines).len))

SUMMARY_MIN_CHARS == 50
SUMMARY_LIMIT == 500

\* the length of the string _extract_basic_summary returns
extract_basic_summary(lines) ==
    LET IsLong(n) == n > SUMMARY_MIN_CHARS
        long == SelectSeq(paragraphs(lines, <<>>), IsLong)
    IN IF long = <<>> THEN 0
       ELSE IF long[1] > SUMMARY_LIMIT THEN SUMMARY_LIMIT ELSE long[1]

\* SpacyResumeParser._calculate_confidence_score, in hundredths; skills,
\* education and experience are the lengths of the extracted lists
calculate_confidence_score(d) ==
    LET score == QSum(<<IF d.full_name # "" THEN QOne ELSE QZero,
                        IF d.email # "" THEN Q(1, 2) ELSE QZero,
                        IF d.phone # "" THEN Q(1, 2) ELSE QZero,
                        IF d.skills >= 5 THEN QOne
                        ELSE IF d.skills >= 2 THEN Q(1, 2) ELSE QZero,
                        IF d.education > 0 THEN QOne ELSE QZero,
                        IF d.experience > 0 THEN QOne ELSE QZero>>)
        max_score == 5
    IN round2(QMul(score, Q(1, max_score)))

\* confidence_score = 0.6 of _parse_text_content
BASIC_CONFIDENCE == 60

\* the number of completed fields both completeness functions count
completed_fields(d, summary) ==
    (IF d.full_name # "" THEN 1 ELSE 0)
      + (IF d.email # "" \/ d.phone # "" THEN 1 ELSE 0)
      + (IF d.skills > 0 THEN 1 ELSE 0)
      + (IF d.education > 0 THEN 1 ELSE 0)
      + (IF d.experience > 0 THEN 1 ELSE 0)
      + (IF summary > 0 THEN 1 ELSE 0)

\* variant: the summary is not counted
calculate_completeness_score_no_summary(d, summary) ==
    round2(Q(completed_fields(d, 0), 6))
\* SpacyResumeParser._calculate_completeness_score, in hundredths
calculate_completeness_score(d, summary) == round2(Q(completed_fields(d, summary), 6))

\* EnhancedResumeParsingService._calculate_basic_completeness
calculate_basic_completeness(d, summary) == round2(Q(completed_fields(d, summary), 6))

\* the sections and scores of a parse result
parsed_data(d, summary, label, confidence_score, completeness_score) ==
    [provider |-> label, full_name |-> d.full_name, email |-> d.email,
     phone |-> d.phone, skills |-> d.skills, education |-> d.education,
     experience |-> d.experience, summary |-> summary,
     confidence_score |-> confidence_score, completeness_score |-> completeness_score]

\* SpacyResumeParser.parse_resume from the extractors on
spacy_parsed_data(d) ==
    LET summary == extract_summary(d.lines)
    IN parsed_data(d, summary, "spacy_nlp", calculate_confidence_score(d),
                   calculate_completeness_score(d, summary))

\* EnhancedResumeParsingService._parse_text_content and the label its
\* caller sets
basic_parsed_data(d, label) ==
    LET summary == extract_basic_summary(d.lines)
    IN parsed_data(d, summary, label, BASIC_CONFIDENCE,
                   calculate_basic_completeness(d, summary))

Found(lines, full_name, email, phone, skills, education, experience) ==
    [lines |-> lines, full_name |-> full_name, email |-> email, phone |-> phone,
     skills |-> skills, education |-> education, experience |-> experience]

\* numbers of skills found, around the thresholds 2 and 5
SkillCounts == {0, 1, 2, 5}

\* texts that vary in what the extractors find, and texts that vary in
\* their lines
Docs ==
    {Found(lines, n, e, p, s, ed, ex) :
        lines \in {<<>>, <<Line("summary_header", 7), Line("text", 300)>>},
        n \in {"", "Ann"}, e \in {"", "ann@example.org"}, p \in {"", "555"},
        s \in SkillCounts, ed \in {0, 1}, ex \in {0, 1}}
      \cup {Found(lines, "", "", "", 0, 0, 0) : lines \in SeqsUpTo(LineValues, MaxLines)}

InitScores ==
    /\ IdleParse
    /\ IdleMatch
    /\ IdleRank
    /\ doc \in Docs
    /\ parsed = NotParsed
    /\ growth = NoGrowth
    /\ IdleThreads
    /\ IdleSkills
    /\ IdleFit
    /\ IdleResumes

\* the spaCy parser on this text
spacy_parse_fields ==
    /\ doc # <<>>
    /\ parsed' = spacy_parsed_data(doc)
    /\ UNCHANGED <<outsideScores, doc, growth>>

\* _parse_text_content on this text, called by one of the three providers
\* that use it
basic_parse_fields ==
    /\ doc # <<>>
    /\ \E label \in {"ocr_space", "local_ocr", "text_extraction"} :
          parsed' = basic_parsed_data(doc, label)
    /\ UNCHANGED <<outsideScores, doc, growth>>

\* which of the six sections a parser finds non-empty in d
sections_found(d, summary) ==
    [name |-> d.full_name # "", contact |-> d.email # "" \/ d.phone # "",
     skills |-> d.skills > 0, education |-> d.education > 0,
     experience |-> d.experience > 0, summary |-> summary > 0]

SectionNames == {"name", "contact", "skills", "education", "experience", "summary"}

\* d2 has for this parser every section d has, and one more
one_more_section(d, summary, d2, summary2) ==
    LET before == sections_found(d, summary)
        after == sections_found(d2, summary2)
    IN /\ \A x \in SectionNames : before[x] => after[x]
       /\ Cardinality({x \in SectionNames : after[x] /\ ~before[x]}) = 1

\* the texts that differ from d in one place: something more for an
\* extractor to find, or one more line at the start or at the end
Variations(d) ==
    {[d EXCEPT !.full_name = "Ann"], [d EXCEPT !.email = "ann@example.org"],
     [d EXCEPT !.phone = "555"], [d EXCEPT !.education = 1],
     [d EXCEPT !.experience = 1]}
      \cup {[d EXCEPT !.skills = n] : n \in SkillCounts}
      \cup {[d EXCEPT !.lines = <<l>> \o d.lines] : l \in LineValues}
      \cup {[d EXCEPT !.lines = Append(d.lines, l)] : l \in LineValues}

\* another text: for one of the parsers it has one more non-empty section
\* and the other sections as before, for the other parser no section less;
\* a behaviour holds one such step
add_section ==
    /\ doc # <<>>
    /\ ~growth.added
    /\ \E d2 \in Variations(doc) :
          LET s1 == extract_summary(doc.lines)
              s2 == extract_summary(d2.lines)
              b1 == extract_basic_summary(doc.lines)
              b2 == extract_basic_summary(d2.lines)
          IN /\ \/ one_more_section(doc, s1, d2, s2)
                \/ one_more_section(doc, b1, d2, b2)
             /\ \A x \in SectionNames :
                    /\ sections_found(doc, s1)[x] => sections_found(d2, s2)[x]
                    /\ sections_found(doc, b1)[x] => sections_found(d2, b2)[x]
             /\ Len(d2.lines) <= MaxLines
             /\ doc' = d2
             /\ growth' = [added |-> TRUE,
                           spacy_nlp |-> calculate_completeness_score(doc, s1),
                           basic_extraction |-> calculate_basic_completeness(doc, b1)]
    /\ parsed' = NotParsed
    /\ UNCHANGED outsideScores

NextScores ==
    \/ spacy_parse_fields
    \/ basic_parse_fields
    \/ add_section

SpecScores == InitScores /\ [][NextScores]_vars

(***************************************************************************)
(* Concurrent calls on the shared engine: job_matching_engine is one       *)
(* module-level object, the request handlers call fit_models and the       *)
(* scorers on it, and no statement of either takes a lock.  Each statement *)
(* that reads or writes the engine is one step.                            *)
(***************************************************************************)
\* the arguments of the concurrent fit_models calls: the candidate and job
\* at hand, a job list with other words of as many terms, and one with
\* fewer terms
FitCalls ==
    <<[candidates |-> <<BaseCandidate>>, jobs |-> <<BaseJob>>],
      [candidates |-> <<>>,
       jobs |-> <<[BaseJob EXCEPT
                     !.description = <<"retail", "store", "manager">>,
                     !.requirements = <<"sales", "london", "uk">>]>>],
      [candidates |-> <<>>,
       jobs |-> <<[BaseJob EXCEPT !.description = <<"retail">>,
                                  !.requirements = <<>>]>>]>>

\* the scorer before its first statement
ScorerStart ==
    [pc |-> "check_models_fitted", candidate_vector |-> Unfitted,
     job_vector |-> Unfitted, method |-> "", score |-> 0]

InitThreads ==
    /\ IdleParse
    /\ candidate = BaseCandidate
    /\ job = BaseJob
    /\ models_fitted = FALSE
    /\ description_vectorizer = Unfitted
    /\ skill_vectorizer = Unfitted
    /\ match = [kind |-> "none"]
    /\ op = [added |-> FALSE, before |-> 0, current |-> FALSE]
    /\ IdleRank
    /\ IdleScores
    /\ fitters = [k \in 1..Len(FitCalls) |-> "fit_skill_vectorizer"]
    /\ scorer = ScorerStart
    /\ IdleSkills
    /\ IdleFit
    /\ IdleResumes

\* fit_models, lines 87-106: self.skill_vectorizer.fit(all_skills), and the
\* except clause when it raises
fit_skill_vectorizer ==
    \E k \in DOMAIN fitters :
       /\ fitters[k] = "fit_skill_vectorizer"
       /\ LET all_skills == skill_documents(FitCalls[k].candidates, FitCalls[k].jobs)
          IN IF all_skills # <<>> /\ fit_raises(all_skills)
               THEN /\ models_fitted' = FALSE
                    /\ fitters' = [fitters EXCEPT ![k] = "done"]
                    /\ UNCHANGED skill_vectorizer
               ELSE /\ skill_vectorizer' = IF all_skills # <<>> THEN fit(all_skills)
                                           ELSE skill_vectorizer
                    /\ fitters' = [fitters EXCEPT ![k] = "fit_description_vectorizer"]
                    /\ UNCHANGED models_fitted
       /\ UNCHANGED <<outsideThreads, description_vectorizer, scorer>>

\* fit_models, lines 108-127: self.description_vectorizer.fit(all_descriptions)
fit_description_vectorizer ==
    \E k \in DOMAIN fitters :
       /\ fitters[k] = "fit_description_vectorizer"
       /\ LET all_descriptions ==
                  description_documents(FitCalls[k].candidates, FitCalls[k].jobs)
          IN IF all_descriptions # <<>> /\ fit_raises(all_descriptions)
               THEN /\ models_fitted' = FALSE
                    /\ fitters' = [fitters EXCEPT ![k] = "done"]
                    /\ UNCHANGED description_vectorizer
               ELSE /\ description_vectorizer' =
                          IF all_descriptions # <<>> THEN fit(all_descriptions)
                          ELSE description_vectorizer
                    /\ fitters' = [fitters EXCEPT ![k] = "set_models_fitted"]
                    /\ UNCHANGED models_fitted
       /\ UNCHANGED <<outsideThreads, skill_vectorizer, scorer>>

\* fit_models, line 129: self._models_fitted = True
set_models_fitted ==
    \E k \in DOMAIN fitters :
       /\ fitters[k] = "set_models_fitted"
       /\ models_fitted' = TRUE
       /\ fitters' = [fitters EXCEPT ![k] = "done"]
       /\ UNCHANGED <<outsideThreads, skill_vectorizer, description_vectorizer, scorer>>

\* the keyword fallback of _calculate_semantic_match, lines 580-590
keyword_fallback ==
    [scorer EXCEPT !.pc = "done", !.method = "keyword_based",
                   !.score = round3(calculate_keyword_similarity(
                                 prepare_candidate_text(candidate),
                                 prepare_job_text(job)))]

\* _calculate_semantic_match, line 568: if self._models_fitted
check_models_fitted ==
    /\ scorer # <<>>
    /\ scorer.pc = "check_models_fitted"
    /\ scorer' = IF models_fitted THEN [scorer EXCEPT !.pc = "transform_candidate"]
                 ELSE keyword_fallback
    /\ UNCHANGED <<outsideThreads, models_fitted, skill_vectorizer,
                   description_vectorizer, fitters>>

\* line 570: candidate_vector = self.description_vectorizer.transform(...),
\* a vector over the vocabulary the vectorizer holds at this moment
transform_candidate ==
    /\ scorer # <<>>
    /\ scorer.pc = "transform_candidate"
    /\ scorer' = IF ~description_vectorizer.fitted THEN keyword_fallback
                 ELSE [scorer EXCEPT !.pc = "transform_job",
                                     !.candidate_vector = description_vectorizer]
    /\ UNCHANGED <<outsideThreads, models_fitted, skill_vectorizer,
                   description_vectorizer, fitters>>

\* line 571: job_vector = self.description_vectorizer.transform([job_text])
transform_job ==
    /\ scorer # <<>>
    /\ scorer.pc = "transform_job"
    /\ scorer' = IF ~description_vectorizer.fitted THEN keyword_fallback
                 ELSE [scorer EXCEPT !.pc = "cosine_similarity",
                                     !.job_vector = description_vectorizer]
    /\ UNCHANGED <<outsideThreads, models_fitted, skill_vectorizer,
                   description_vectorizer, fitters>>

\* line 573: cosine_similarity(candidate_vector, job_vector) raises
\* ValueError when the two vectors have different numbers of columns, and
\* otherwise multiplies them column by column
cosine_similarity ==
    /\ scorer # <<>>
    /\ scorer.pc = "cosine_similarity"
    /\ IF Cardinality(scorer.candidate_vector.vocabulary)
            # Cardinality(scorer.job_vector.vocabulary)
         THEN scorer' = keyword_fallback
         ELSE \E similarity \in {0, 500, 1000} :
                 scorer' = [scorer EXCEPT !.pc = "done", !.method = "tfidf_cosine",
                                          !.score = similarity]
    /\ UNCHANGED <<outsideThreads, models_fitted, skill_vectorizer,
                   description_vectorizer, fitters>>

NextThreads ==
    \/ fit_skill_vectorizer
    \/ fit_description_vectorizer
    \/ set_models_fitted
    \/ check_models_fitted
    \/ transform_candidate
    \/ transform_job
    \/ cosine_similarity

SpecThreads == InitThreads /\ [][NextThreads]_vars

(***************************************************************************)
(* Sequences of fit_models calls on one engine                             *)
(***************************************************************************)
MaxFits == 3   \* number of fit_models calls in a sequence

\* the arguments of the calls: those of the concurrent calls, empty lists,
\* and a job whose texts hold stop words only
FitArguments ==
    FitCalls \o
    <<[candidates |-> <<>>, jobs |-> <<>>],
      [candidates |-> <<>>,
       jobs |-> <<[BaseJob EXCEPT !.description = <<"the">>,
                                  !.requirements = <<"and">>]>>]>>

InitFit ==
    /\ IdleParse
    /\ candidate = BaseCandidate
    /\ job = BaseJob
    /\ models_fitted = FALSE
    /\ description_vectorizer = Unfitted
    /\ skill_vectorizer = Unfitted
    /\ match = [kind |-> "none"]
    /\ op = [added |-> FALSE, before |-> 0, current |-> FALSE]
    /\ IdleRank
    /\ IdleScores
    /\ IdleThreads
    /\ IdleSkills
    /\ IdleFit
    /\ IdleResumes

\* one whole call of fit_models
fit_models_call ==
    /\ Len(fit_log) < MaxFits
    /\ \E k \in DOMAIN FitArguments :
          LET after == fit_models_result(FitArguments[k].candidates, FitArguments[k].jobs,
                                         skill_vectorizer, description_vectorizer)
          IN /\ skill_vectorizer' = after.skill_vectorizer
             /\ description_vectorizer' = after.description_vectorizer
             /\ models_fitted' = after.models_fitted
             /\ fit_log' = Append(fit_log, k)
    /\ UNCHANGED outsideFit

NextFit == fit_models_call

SpecFit == InitFit /\ [][NextFit]_vars

(***************************************************************************)
(* SpacyResumeParser._extract_skills                                       *)
(***************************************************************************)
MaxFound == 3   \* number of skills_db names the text can mention

\* names of skills_db in the order the two loops visit them
SkillsDbNames == <<"python", "java", "javascript", "c++">>

\* what _assess_skill_proficiency returns
AssessedLevels == {"expert", "intermediate", "beginner"}

\* text_lower.count(skill_lower) for a skill the text mentions
MentionCounts == {1, 2}

SKILLS_LIMIT == 50

\* Python compares the proficiency_level strings character by character:
\* "beginner" < "expert" < "intermediate"
str_order(level) ==
    CASE level = "beginner" -> 1
      [] level = "expert" -> 2
      [] level = "intermediate" -> 3

\* the sort key (mentioned_count, proficiency_level) of a does not come
\* before that of b
key_ge(a, b) ==
    \/ a.mentioned_count > b.mentioned_count
    \/ /\ a.mentioned_count = b.mentioned_count
       /\ str_order(a.proficiency_level) >= str_order(b.proficiency_level)

\* list.sort(key=..., reverse=True): descending by key, entries with equal
\* keys stay in their original order
RECURSIVE sort_skills(_)
sort_skills(found) ==
    IF found = <<>> THEN <<>>
    ELSE LET front == sort_skills(SubSeq(found, 1, Len(found) - 1))
             x == found[Len(found)]
             ahead == {i \in 1..Len(front) : key_ge(front[i], x)}
         IN insert(front, Cardinality(ahead), x)

\* the skill records the two loops append for a text: for each of the first
\* MaxFound names, not mentioned or one record
RECURSIVE FoundLists(_)
FoundLists(n) ==
    IF n = 0 THEN {<<>>}
    ELSE LET shorter == FoundLists(n - 1)
         IN shorter \cup
            {Append(f, [name |-> SkillsDbNames[n], proficiency_level |-> l,
                        mentioned_count |-> c]) :
                f \in shorter, l \in AssessedLevels, c \in MentionCounts}

NoSkillList == <<>>

InitSkills ==
    /\ IdleParse
    /\ IdleMatch
    /\ IdleRank
    /\ IdleScores
    /\ IdleThreads
    /\ IdleResumes
    /\ IdleFit
    /\ skill_list \in {[found |-> f, skills |-> <<>>, extracted |-> FALSE] :
                          f \in FoundLists(MaxFound)}

\* _extract_skills, lines 420-424: sort, then keep the first 50
extract_skills ==
    /\ skill_list # NoSkillList
    /\ ~skill_list.extracted
    /\ skill_list' = [skill_list EXCEPT
                         !.skills = SubSeq(sort_skills(skill_list.found), 1,
                                           IF Len(skill_list.found) < SKILLS_LIMIT
                                             THEN Len(skill_list.found) ELSE SKILLS_LIMIT),
                         !.extracted = TRUE]
    /\ UNCHANGED outsideSkills

NextSkills == extract_skills

SpecSkills == InitSkills /\ [][NextSkills]_vars

(***************************************************************************)
(* routes/resume.py and routes/matching.py: concurrent requests of one     *)
(* candidate on the resumes table.  The user is a candidate with a         *)
(* profile, so the 403 and 404 answers of the role checks do not occur.    *)
(***************************************************************************)
MaxRequests == 2   \* number of requests in flight

\* what enhanced_resume_parser.parse_resume hands back to upload_resume: the
\* spaCy parser's result with success True or False, or a result of the
\* other providers, which carries no 'success' key
ParseOutcomes == {"ok", "failed", "keyless"}

NewRequest(o, f, p, i) ==
    [op |-> o, has_file |-> f, parse |-> p, resume_id |-> i,
     pc |-> "received", status |-> 0]

ResumeRequests ==
    {NewRequest("upload", FALSE, "none", 0)}
    \cup {NewRequest("upload", TRUE, p, 0) : p \in ParseOutcomes}
    \cup {NewRequest(o, FALSE, "none", i) :
             o \in {"set_primary", "delete"}, i \in 1..MaxRequests}
    \cup {NewRequest("find_matching_jobs", FALSE, "none", 0)}

RECURSIVE RequestLists(_)
RequestLists(n) ==
    IF n = 0 THEN {<<>>}
    ELSE {Append(l, r) : l \in RequestLists(n - 1), r \in ResumeRequests}

InitResumes ==
    /\ IdleParse
    /\ IdleMatch
    /\ IdleRank
    /\ IdleScores
    /\ IdleThreads
    /\ IdleSkills
    /\ IdleFit
    /\ resumes = {}
    /\ upload_dir = 0
    /\ requests \in RequestLists(MaxRequests)
    /\ latest = 0

\* the answer of request k
respond(k, code) ==
    /\ requests' = [requests EXCEPT ![k].pc = "done", ![k].status = code]
    /\ latest' = k

\* upload_resume, lines 27-42: the file checks and the parse.  A result
\* without a 'success' key raises KeyError at line 41, which the handler of
\* lines 150-153 answers with a rollback and 500
upload_resume_parse ==
    \E k \in DOMAIN requests :
    /\ requests[k].op = "upload"
    /\ requests[k].pc = "received"
    /\ IF ~requests[k].has_file \/ requests[k].parse = "failed"
         THEN respond(k, 400)
         ELSE IF requests[k].parse = "keyless"
           THEN respond(k, 500)
           ELSE /\ requests' = [requests EXCEPT ![k].pc = "parsed"]
                /\ latest' = latest
    /\ UNCHANGED <<resumes, upload_dir, outsideResumes>>

\* upload_resume, lines 44-56: the file is written to uploads/resumes
upload_resume_save ==
    \E k \in DOMAIN requests :
    /\ requests[k].op = "upload"
    /\ requests[k].pc = "parsed"
    /\ upload_dir' = upload_dir + 1
    /\ requests' = [requests EXCEPT ![k].pc = "saved"]
    /\ UNCHANGED <<resumes, latest, outsideResumes>>

\* upload_resume, lines 59-70 and 150-153: Resume(...) is called with the
\* keywords content_type, raw_text, parsing_provider and parsing_confidence,
\* which the Resume model (models/database.py, lines 196-211) does not
\* declare; the constructor raises TypeError before the statements of lines
\* 73-75, the handler rolls back and answers 500.  The saved file stays
upload_resume_record ==
    \E k \in DOMAIN requests :
    /\ requests[k].op = "upload"
    /\ requests[k].pc = "saved"
    /\ resumes' = resumes
    /\ respond(k, 500)
    /\ UNCHANGED <<upload_dir, outsideResumes>>

\* set_primary_resume, lines 246-248: the route hands resume_id to a
\* function that takes no parameter; the call raises TypeError before the
\* body runs and the request is answered 500
set_primary_resume ==
    \E k \in DOMAIN requests :
    /\ requests[k].op = "set_primary"
    /\ requests[k].pc = "received"
    /\ respond(k, 500)
    /\ UNCHANGED <<resumes, upload_dir, outsideResumes>>

\* delete_resume, lines 282-284: as set_primary_resume
delete_resume ==
    \E k \in DOMAIN requests :
    /\ requests[k].op = "delete"
    /\ requests[k].pc = "received"
    /\ respond(k, 500)
    /\ UNCHANGED <<resumes, upload_dir, outsideResumes>>

\* find_matching_jobs, routes/matching.py lines 34-41: the reader of the
\* primary resume
find_matching_jobs ==
    \E k \in DOMAIN requests :
    /\ requests[k].op = "find_matching_jobs"
    /\ requests[k].pc = "received"
    /\ IF \E r \in resumes : r.is_primary
         THEN respond(k, 200)
         ELSE respond(k, 400)
    /\ UNCHANGED <<resumes, upload_dir, outsideResumes>>

NextResumes ==
    \/ upload_resume_parse
    \/ upload_resume_save
    \/ upload_resume_record
    \/ set_primary_resume
    \/ delete_resume
    \/ find_matching_jobs

SpecResumes == InitResumes /\ [][NextResumes]_vars

(***************************************************************************)
(* Properties of the matching engine                                       *)
(***************************************************************************)
Scored == match.kind = "scored"
\* a score in thousandths lies in [0.0, 1.0]
InUnit(x) == 0 <= x /\ x <= 1000

\* C8: calculate_match_score returns overall_score and confidence in
\* [0.0, 1.0], and every breakdown component score is in [0.0, 1.0].
C8_ScoresBounded ==
    Scored => /\ InUnit(match.overall_score)
              /\ InUnit(match.confidence)
              /\ \A component \in Components : InUnit(match.breakdown[component].score)

C8_Witness ==
    /\ Scored
    /\ match.breakdown.experience.industry_score = 1000
    /\ match.breakdown.experience.score = 1000
    /\ match.confidence = 1000

Current == Scored /\ op.current

\* a statement of _calculate_skill_match or of _calculate_skill_level_match
\* raises: skill['name'] on a record without that key, None.lower() on the
\* proficiency level of a matched skill
skills_raises(c, j) ==
    /\ c.skills # <<>>
    /\ j.required_skills # <<>>
    /\ IF \/ \E i \in 1..Len(c.skills) : c.skills[i].name = NO_NAME
          \/ \E i \in 1..Len(j.required_skills) : j.required_skills[i].name = NO_NAME
         THEN TRUE
       ELSE \E k \in Range(dict_keys(c.skills)) \cap Range(dict_keys(j.required_skills)) :
                NONE_LEVEL \in {dict_value(c.skills, k).proficiency_level,
                                dict_value(j.required_skills, k).proficiency_level}

\* a statement of _calculate_experience_match or of
\* _calculate_industry_experience_match raises: a number compared with None,
\* a string added to None
experience_raises(c, j) ==
    LET req == j.experience_requirements
        required_years == get(req.min_years, 0)
        max_years == get(req.max_years, 20)
        industry == get(j.industry, "")
    IN \/ required_years.tag = "none"
       \/ /\ QLe(QInt(required_years.v), calculate_years_of_experience(c.work_experience))
          /\ max_years.tag = "none"
       \/ /\ industry.tag = "val" /\ industry.v # ""
          /\ \E i \in 1..Len(c.work_experience) : c.work_experience[i].company = NONE_TEXT

\* a statement of _calculate_domain_match raises: None.lower()
domain_raises(c, j) == j.industry.tag = "none"

\* C11: when the computation of a component scorer hits an exception on a
\* malformed candidate or job field, that component's breakdown entry has
\* score 0.0 and an error annotation, and calculate_match_score returns the
\* full breakdown with the other components scored by their own scorers.
C11_FailureIsolation ==
    Current =>
      /\ skills_raises(candidate, job) =>
            match.breakdown.skills.score = 0 /\ match.breakdown.skills.status = "error"
      /\ experience_raises(candidate, job) =>
            /\ match.breakdown.experience.score = 0
            /\ match.breakdown.experience.status = "error"
      /\ domain_raises(candidate, job) =>
            match.breakdown.domain.score = 0 /\ match.breakdown.domain.match_type = "error"
      /\ match.breakdown.skills = calculate_skill_match(candidate, job)
      /\ match.breakdown.experience = calculate_experience_match(candidate, job)
      /\ match.breakdown.domain = calculate_domain_match(candidate, job)
      /\ match.breakdown.location = calculate_location_match(candidate, job)

\* both texts of the semantic comparison are non-empty
HasText == /\ ~is_empty_text(prepare_candidate_text(candidate))
           /\ ~is_empty_text(prepare_job_text(job))

\* the Jaccard score of the two prepared texts
KeywordScore ==
    round3(calculate_keyword_similarity(prepare_candidate_text(candidate),
                                        prepare_job_text(job)))

\* C12: whenever the models are unfitted (never fitted, or the last
\* fit_models failed) or the transform of the description vectorizer raises,
\* the semantic component of a pair with non-empty texts is the
\* keyword-overlap score with method keyword_based and no error.
C12_UnfittedKeywordFallback ==
    (Current /\ HasText /\ (~models_fitted \/ ~description_vectorizer.fitted)) =>
        match.breakdown.semantic = semantic_result(KeywordScore, "keyword_based")

\* fit_models([], []) on a new engine sets _models_fitted and fits nothing
C12_Witness ==
    /\ Current /\ HasText
    /\ models_fitted /\ ~description_vectorizer.fitted
    /\ match.breakdown.semantic.method = "keyword_based"
    /\ match.breakdown.semantic.score > 0

(***************************************************************************)
(* Properties of the ranking functions                                     *)
(***************************************************************************)
Ranked == ranking.op # "none"

\* the positions of the pool whose pair scored above 0
Kept == {i \in 1..Len(ranking.pool) : ranking.results[i].overall_score > 0}

\* position k comes ahead of position i: a higher score, or the same score
\* and earlier in the input
Ahead(k, i) ==
    LET sk == ranking.results[k].overall_score
        si == ranking.results[i].overall_score
    IN sk > si \/ (sk = si /\ k < i)

\* the kept positions in descending order of score, ties in input order
RankOrder ==
    [r \in 1..Cardinality(Kept) |->
        CHOOSE i \in Kept : Cardinality({k \in Kept : Ahead(k, i)}) = r - 1]

\* the first `limit` entries of that order
FirstOfOrder ==
    LET n == IF ranking.limit < 0 THEN 0
             ELSE IF ranking.limit > Cardinality(Kept) THEN Cardinality(Kept)
             ELSE ranking.limit
    IN [r \in 1..n |-> match_entry(ranking.pool[RankOrder[r]],
                                   ranking.results[RankOrder[r]])]

\* C13: find_best_matches and find_best_candidates return the sequence
\* obtained by scoring every pair, dropping the entries with overall_score
\* <= 0, sorting the rest by score descending with ties in input order, and
\* keeping the first `limit` entries.
C13_Ranking == Ranked => ranking.matches = FirstOfOrder

\* the same for a limit that is not negative
C13_RankingNonNegativeLimit ==
    (Ranked /\ ranking.limit >= 0) => ranking.matches = FirstOfOrder

(***************************************************************************)
(* Properties of repeated parse requests                                   *)
(***************************************************************************)
\* both requests have returned
BothDone == previous.called /\ pc = "done"

Parsed == parsed.provider # ""

\* none, or all, of name, contact, skills, education and experience found
NoneFound ==
    /\ parsed.full_name = "" /\ parsed.email = "" /\ parsed.phone = ""
    /\ parsed.skills = 0 /\ parsed.education = 0 /\ parsed.experience = 0
AllFound ==
    /\ parsed.full_name # "" /\ parsed.email # "" /\ parsed.phone # ""
    /\ parsed.skills >= 5 /\ parsed.education > 0 /\ parsed.experience > 0

\* C15: in every successful parse, of every provider, confidence_score is
\* the weighted sum of the presence indicators (name, contact, enough
\* skills, education, experience): 0 when none of them is found, 1.0 when
\* all of them are.
C15_ConfidenceFromFields ==
    Parsed => /\ NoneFound => parsed.confidence_score = 0
              /\ AllFound => parsed.confidence_score = 100

\* the same for the spaCy parser alone
C15_SpacyConfidenceFromFields ==
    (Parsed /\ parsed.provider = "spacy_nlp") =>
        /\ NoneFound => parsed.confidence_score = 0
        /\ AllFound => parsed.confidence_score = 100

\* the sections of the parse result that are non-empty
NonEmptySections ==
    LET found == sections_found(parsed, parsed.summary)
    IN {x \in SectionNames : found[x]}

C17_SummaryBounded == Parsed => parsed.summary <= SUMMARY_LIMIT

\* the same for the providers that use _parse_text_content
C17_BasicSummaryBounded ==
    (Parsed /\ parsed.provider # "spacy_nlp") => parsed.summary <= SUMMARY_LIMIT

(***************************************************************************)
(* Properties of concurrent engine calls                                   *)
(***************************************************************************)
\* the scorer returned a TF-IDF cosine score
TookTfidfPath == scorer # <<>> /\ scorer.pc = "done" /\ scorer.method = "tfidf_cosine"

\* C18: under every interleaving of fit_models calls with each other and
\* with a score computation, a computation that takes the TF-IDF path uses
\* the vectorizer state of one single fit_models call: its two vectors are
\* over the same fitted vocabulary.
C18_SingleFitState ==
    TookTfidfPath => scorer.candidate_vector = scorer.job_vector

(***************************************************************************)
(* Properties of match_reasons and of the domain component                 *)
(***************************************************************************)
\* the sentences _generate_match_reasons can emit for a component
ReasonSentences(component) ==
    CASE component = "skills" -> {"Strong skill match"}
      [] component = "experience" -> {"Good experience match"}
      [] component = "domain" -> {"Direct industry experience match",
                                  "Compatible industry background"}
      [] OTHER -> {}

GenericReason == <<"Partial match based on available criteria">>

\* the component's score is above the 0.7 bar
Clears(component) == match.breakdown[component].score > REASON_THRESHOLD

\* C19: for each of the five breakdown components whose score clears 0.7,
\* match_reasons contains that component's sentence; when no component
\* clears it, match_reasons is exactly the one generic reason; match_reasons
\* is never empty.
C19_MatchReasons ==
    Current =>
       /\ \A component \in Components :
             Clears(component) =>
                ReasonSentences(component) \cap Range(match.match_reasons) # {}
       /\ (\A component \in Components : ~Clears(component))
             => match.match_reasons = GenericReason
       /\ match.match_reasons # <<>>

\* What the code does keep: the claim restricted to the skills, experience
\* and domain components.
C19_ThreeComponentReasons ==
    Current =>
       /\ \A component \in {"skills", "experience", "domain"} :
             Clears(component) =>
                ReasonSentences(component) \cap Range(match.match_reasons) # {}
       /\ (\A component \in {"skills", "experience", "domain"} : ~Clears(component))
             => match.match_reasons = GenericReason
       /\ match.match_reasons # <<>>

\* the job's industry is a missing key, None or the empty string
IndustryMissing == job.industry.tag # "val" \/ job.industry.v = ""

\* the candidate's domains, lowercased
CandidateDomains ==
    {lower(candidate.domain_expertise[i]) : i \in 1..Len(candidate.domain_expertise)}

\* the domain score the five cases give for the candidate and job at hand
ExpectedDomainScore ==
    IF candidate.domain_expertise = <<>> \/ IndustryMissing THEN 500
    ELSE IF lower(job.industry.v) \in CandidateDomains THEN 1000
    ELSE IF CandidateDomains \cap domain_compatibility(lower(job.industry.v)) # {} THEN 700
    ELSE 300

\* C20: the domain score is 1.0 on a case-insensitive direct match, else 0.7
\* on a compatible domain, else 0.3; it is 0.5 when the candidate's domain
\* list or the job's industry is missing; it is never 0.
C20_DomainScore ==
    Current =>
       /\ match.breakdown.domain.score = ExpectedDomainScore
       /\ match.breakdown.domain.score # 0

\* What the code does keep: the five cases when the industry is not None.
C20_DomainScoreOnStrings ==
    (Current /\ job.industry.tag # "none") =>
       /\ match.breakdown.domain.score = ExpectedDomainScore
       /\ match.breakdown.domain.score # 0

(***************************************************************************)
(* Properties of the experience component                                  *)
(***************************************************************************)
\* the job names an industry, the candidate has experience entries made of
\* strings, and the experience component was computed
IndustryCase ==
    /\ Current
    /\ match.breakdown.experience.status = "ok"
    /\ job.industry.tag = "val" /\ job.industry.v # ""
    /\ candidate.work_experience # <<>>
    /\ \A i \in 1..Len(candidate.work_experience) :
          candidate.work_experience[i].company # NONE_TEXT

\* the experience entries whose description or company mentions the job's
\* industry, case-insensitively
MentioningEntries ==
    {i \in 1..Len(candidate.work_experience) :
        \E w \in Range(lower_words(candidate.work_experience[i].description
                                     \o candidate.work_experience[i].company)) :
           contains(w, lower(job.industry.v))}

MentionFraction == Q(Cardinality(MentioningEntries), Len(candidate.work_experience))

\* C21 as stated: the industry-experience score equals the fraction of
\* experience entries that mention the job's industry, and is 0.3 when no
\* entry mentions it.
C21_IndustryFraction ==
    IndustryCase =>
       match.breakdown.experience.industry_score =
          round3(IF MentioningEntries = {} THEN Q(3, 10) ELSE MentionFraction)

\* C21 as the code has it: the industry-experience score is 0.3 when no
\* entry mentions the job's industry and otherwise the fraction of
\* mentioning entries plus 0.3, capped at 1.0.
C21_IndustryFractionPlusBase ==
    IndustryCase =>
       match.breakdown.experience.industry_score =
          round3(IF MentioningEntries = {} THEN Q(3, 10)
                 ELSE QMin(QOne, QAdd(MentionFraction, Q(3, 10))))

\* some but not all of two or more entries mention the industry
C21_Witness ==
    /\ IndustryCase
    /\ MentioningEntries # {}
    /\ Cardinality(MentioningEntries) < Len(candidate.work_experience)

\* the years the duration forms give for one duration: N for "N years",
\* N/12 for "N months", end minus start for a year range written with a
\* hyphen or an en dash, 1 for any other text, 0 for no text
YearsOfDuration(duration) ==
    LET years == SelectSeq(duration, LAMBDA ph : ph.kind = "years")
        months == SelectSeq(duration, LAMBDA ph : ph.kind = "months")
        ranges == SelectSeq(duration, LAMBDA ph : ph.kind = "range")
    IN IF duration = <<>> THEN QZero
       ELSE IF years # <<>> THEN QInt(years[1].n)
       ELSE IF months # <<>> THEN Q(months[1].n, 12)
       ELSE IF ranges # <<>>
         THEN QMax(QZero, QInt((IF ranges[1].present THEN CurrentYear ELSE ranges[1].to)
                                 - ranges[1].n))
       ELSE QOne

\* the experience component was computed for the candidate and job at hand
ExperienceScored == Current /\ match.breakdown.experience.status = "ok"

\* C22: each experience entry contributes N years for "N years", N/12 for
\* "N months", end minus start for a year range (the current year for
\* "present") and 1.0 for a duration of no such form; the candidate's total
\* years is the sum over all entries.
C22_DurationParsing ==
    ExperienceScored =>
       match.breakdown.experience.candidate_years =
          QSum([i \in 1..Len(candidate.work_experience) |->
                  YearsOfDuration(candidate.work_experience[i].duration)])

\* What the code does keep: the same sum when no year range is written with
\* an en dash.
C22_DurationParsingHyphenRanges ==
    (/\ ExperienceScored
     /\ \A i \in 1..Len(candidate.work_experience) :
          \A k \in 1..Len(candidate.work_experience[i].duration) :
             candidate.work_experience[i].duration[k].sep # "en dash")
      => match.breakdown.experience.candidate_years =
            QSum([i \in 1..Len(candidate.work_experience) |->
                    YearsOfDuration(candidate.work_experience[i].duration)])

\* a bound of the job's experience requirements, or the default when the
\* job gives none
BoundOr(field, default) == IF field.tag = "val" THEN field.v ELSE default

\* the years score the three cases give: 1.0 within [min_years, max_years],
\* 0.15 less per missing year below, 0.05 less per excess year above
\* (not under 0.7)
ExpectedYearsScore ==
    LET years == calculate_years_of_experience(candidate.work_experience)
        min_years == QInt(BoundOr(job.experience_requirements.min_years, 0))
        max_years == QInt(BoundOr(job.experience_requirements.max_years, 20))
    IN IF QLt(years, min_years)
         THEN QMax(QZero, QSub(QOne, QMul(Q(15, 100), QSub(min_years, years))))
       ELSE IF QLe(years, max_years) THEN QOne
       ELSE QMax(Q(7, 10), QSub(QOne, QMul(Q(5, 100), QSub(years, max_years))))

\* C23: years_score is 1.0 when the candidate's years lie in
\* [min_years, max_years], max(0, 1 - 0.15 * gap) below and
\* max(0.7, 1 - 0.05 * excess) above, and this value is the years_score of
\* the experience component for every job, absent bounds included.
C23_YearsScore ==
    Current =>
       /\ match.breakdown.experience.status = "ok"
       /\ match.breakdown.experience.years_score = round3(ExpectedYearsScore)

\* What the code does keep: the same when neither bound is None.
C23_YearsScoreOnNumbers ==
    (/\ Current
     /\ job.experience_requirements.min_years.tag # "none"
     /\ job.experience_requirements.max_years.tag # "none")
      => /\ match.breakdown.experience.status = "ok"
         /\ match.breakdown.experience.years_score = round3(ExpectedYearsScore)

(***************************************************************************)
(* Properties of the skills component                                      *)
(***************************************************************************)
\* the rank of a proficiency level
ProficiencyRank(level) ==
    CASE lower(level) = "beginner" -> 1
      [] lower(level) = "intermediate" -> 2
      [] lower(level) = "advanced" -> 3
      [] lower(level) = "expert" -> 4

\* the positions of the required skills whose name is in the candidate's list
FoundRequired ==
    {i \in 1..Len(job.required_skills) :
        \E k \in 1..Len(candidate.skills) :
           lower(candidate.skills[k].name) = lower(job.required_skills[i].name)}

\* the candidate's entry for a name: a later entry replaces an earlier one
CandidateSkill(name) ==
    LET entries == {k \in 1..Len(candidate.skills) :
                       lower(candidate.skills[k].name) = lower(name)}
    IN candidate.skills[CHOOSE k \in entries : \A other \in entries : other <= k]

\* 1.0 when the candidate's level meets the required one, else 0.25 less
\* per level of gap
LevelScore(i) ==
    LET have == ProficiencyRank(CandidateSkill(job.required_skills[i].name).proficiency_level)
        need == ProficiencyRank(job.required_skills[i].proficiency_level)
    IN IF have >= need THEN QOne
       ELSE QMax(QZero, QSub(QOne, QMul(Q(25, 100), QInt(need - have))))

\* the skills component was computed, the required names are distinct and
\* the levels of the skills found are strings
SkillCase ==
    /\ Current
    /\ match.breakdown.skills.status = "ok"
    /\ \A i, k \in 1..Len(job.required_skills) :
          i # k => lower(job.required_skills[i].name) # lower(job.required_skills[k].name)
    /\ \A i \in FoundRequired :
          /\ job.required_skills[i].proficiency_level # NONE_LEVEL
          /\ CandidateSkill(job.required_skills[i].name).proficiency_level # NONE_LEVEL

\* the average over the skills found of level score times category weight,
\* times found / required
ExpectedSkillScore ==
    LET found == SelectSeq([i \in 1..Len(job.required_skills) |-> i],
                           LAMBDA i : i \in FoundRequired)
        weighted == [n \in 1..Len(found) |->
                       QMul(LevelScore(found[n]),
                            Q(skill_weights(normalize_category(
                                  job.required_skills[found[n]].category)), 100))]
    IN IF found = <<>> THEN QZero
       ELSE QMul(QMul(QSum(weighted), Q(1, Len(found))),
                 Q(Len(found), Len(job.required_skills)))

\* C24: a required skill found in the candidate's list scores 1.0 when the
\* candidate's proficiency meets or exceeds the required one and
\* max(0, 1 - 0.25 * gap) otherwise; the skills score is the average over the
\* matched skills of level score times category weight, times matched /
\* required.
C24_SkillLevelMatch ==
    SkillCase => match.breakdown.skills.score = round3(ExpectedSkillScore)

\* expert Python against one required beginner Python of category
\* programming_languages scores exactly 1.0
C24_Witness ==
    /\ SkillCase
    /\ candidate.skills = <<Skill("Python", "technical", "Expert")>>
    /\ job.required_skills = <<Skill("Python", "programming_languages", "beginner")>>
    /\ match.breakdown.skills.score = 1000

(***************************************************************************)
(* Properties of skill extraction                                          *)
(***************************************************************************)
SkillsExtracted == skill_list # NoSkillList /\ skill_list.extracted

\* C25: the returned skill list is sorted descending by mention count and,
\* among equal mention counts, descending by proficiency rank (expert above
\* advanced above intermediate above beginner), and holds the first 50
\* entries of that order.
C25_SkillOrder ==
    SkillsExtracted =>
       /\ Len(skill_list.skills) =
             (IF Len(skill_list.found) < SKILLS_LIMIT THEN Len(skill_list.found)
              ELSE SKILLS_LIMIT)
       /\ Range(skill_list.skills) \subseteq Range(skill_list.found)
       /\ \A i, k \in 1..Len(skill_list.skills) :
             i < k =>
                \/ skill_list.skills[i].mentioned_count > skill_list.skills[k].mentioned_count
                \/ /\ skill_list.skills[i].mentioned_count
                        = skill_list.skills[k].mentioned_count
                   /\ ProficiencyRank(skill_list.skills[i].proficiency_level)
                        >= ProficiencyRank(skill_list.skills[k].proficiency_level)

\* What the code does keep: the list is sorted descending by mention count.
C25_SortedByMentionCount ==
    SkillsExtracted =>
       \A i, k \in 1..Len(skill_list.skills) :
          i < k => skill_list.skills[i].mentioned_count
                      >= skill_list.skills[k].mentioned_count

(***************************************************************************)
(* Properties of sequences of fit_models calls                             *)
(***************************************************************************)
LastFit == FitArguments[fit_log[Len(fit_log)]]
EngineState ==
    [skill_vectorizer |-> skill_vectorizer,
     description_vectorizer |-> description_vectorizer,
     models_fitted |-> models_fitted]

\* a fit() of the last call raised: it was given documents without a term
LastFitRaised ==
    LET skills == skill_documents(LastFit.candidates, LastFit.jobs)
        descriptions == description_documents(LastFit.candidates, LastFit.jobs)
    IN \/ skills # <<>> /\ fit_raises(skills)
       \/ descriptions # <<>> /\ fit_raises(descriptions)

\* the same call again changes nothing, and the flag tells whether the last
\* call completed
IdempotentAndFlagged ==
    /\ fit_models_result(LastFit.candidates, LastFit.jobs,
                         skill_vectorizer, description_vectorizer) = EngineState
    /\ models_fitted = ~LastFitRaised

\* C26 as stated: after any sequence of fit_models calls the engine's
\* fitted state depends only on the inputs of the last call (it is the state
\* that call leaves on a new engine), a repeated call changes nothing, and
\* the fitted flag is true exactly when the last call completed.
C26_FitDependsOnLastCall ==
    fit_log # <<>> =>
       /\ IdempotentAndFlagged
       /\ EngineState = fit_models_result(LastFit.candidates, LastFit.jobs,
                                          Unfitted, Unfitted)

\* C26 as the code has it: a repeated call changes nothing, the fitted flag
\* is true exactly when the last call completed, and each vectorizer holds
\* the vocabulary of the last call's documents when that call completed and
\* had documents.
C26_FitIdempotent ==
    fit_log # <<>> =>
       /\ IdempotentAndFlagged
       /\ (~LastFitRaised /\ LastFit.candidates \o LastFit.jobs # <<>>) =>
             /\ skill_vectorizer =
                   fit(skill_documents(LastFit.candidates, LastFit.jobs))
             /\ description_vectorizer =
                   fit(description_documents(LastFit.candidates, LastFit.jobs))

\* a call with documents, completed, after a call with other documents
C26_Witness ==
    /\ Len(fit_log) >= 2
    /\ fit_log[Len(fit_log)] # fit_log[Len(fit_log) - 1]
    /\ description_vectorizer.fitted
    /\ ~LastFitRaised
    /\ LastFit.jobs # <<>>
    /\ models_fitted

(***************************************************************************)
(* Properties of the provider label                                        *)
(***************************************************************************)
\* the request ended with a successful result
ParsedOk == pc = "done" /\ result.kind = "record" /\ result.success

\* the last text extraction that ran
LastExtraction == extracted[Len(extracted)]

\* C27: in every successful parse result, after any fallback path, the
\* top-level provider equals data.parsing_metadata.provider, is one of
\* spacy_nlp, ocr_space, local_ocr, text_extraction, and names the provider
\* whose text extraction produced the parsed text.
C27_ProviderLabel ==
    ParsedOk =>
       /\ result.provider = result.data.parsing_metadata.provider
       /\ result.provider \in providers
       /\ extracted # <<>>
       /\ LastExtraction.provider = result.provider
       /\ ~LastExtraction.out.raises
       /\ LastExtraction.out.text = result.raw_text
       /\ result.data.parsing_metadata.text_length = result.raw_text.raw

\* a request for the cloud provider answered by a later provider of the chain
C27_Witness ==
    /\ ParsedOk
    /\ provider = "ocr_space"
    /\ result.provider = "text_extraction"
    /\ Len(attempted) = 3

(***************************************************************************)
(* Properties of the file position                                         *)
(***************************************************************************)
\* C28: every provider attempt in a fallback chain reads the file from
\* offset 0, whatever validation or an earlier failed provider consumed:
\* each text extraction that ran is a read that began at the start.
C28_ReadsFromStart ==
    /\ Len(stream.reads) = Len(extracted)
    /\ \A i \in 1..Len(stream.reads) :
          /\ stream.reads[i].provider = extracted[i].provider
          /\ stream.reads[i].offset = 0

\* a provider read the file after an earlier provider had consumed it
C28_Witness ==
    /\ pc = "done"
    /\ Len(stream.reads) >= 2
    /\ result.success
    /\ stream.reads[Len(stream.reads)].provider = result.provider

(***************************************************************************)
(* Properties of skill coverage                                            *)
(***************************************************************************)
SkillsScored == Current /\ match.breakdown.skills.status = "ok"

\* C29: the skills component reports coverage_ratio = 1.0 exactly when
\* missing_skills is empty, also when required_skills names the same skill
\* more than once.
C29_FullCoverage ==
    SkillsScored =>
       (match.breakdown.skills.coverage_ratio = 1000
          <=> match.breakdown.skills.missing_skills = <<>>)

\* What the code does keep: the same when the required names are distinct.
C29_FullCoverageDistinctNames ==
    (/\ SkillsScored
     /\ \A i, k \in 1..Len(job.required_skills) :
           i # k => lower(job.required_skills[i].name) # lower(job.required_skills[k].name))
      => (match.breakdown.skills.coverage_ratio = 1000
            <=> match.breakdown.skills.missing_skills = <<>>)

(***************************************************************************)
(* C30                                                                     *)
(***************************************************************************)
PrimaryResumes == {r \in resumes : r.is_primary}

\* the request answered last is an upload of a file that was parsed
AnsweredValidUpload ==
    /\ latest # 0
    /\ requests[latest].op = "upload"
    /\ requests[latest].has_file
    /\ requests[latest].parse = "ok"

ResumesNeverStored ==
    /\ resumes = {}
    /\ \A k \in DOMAIN requests : requests[k].status \in {0, 400, 500}
    /\ upload_dir = Cardinality({k \in DOMAIN requests :
                                    requests[k].op = "upload"
                                    /\ requests[k].pc \in {"saved", "done"}
                                    /\ requests[k].parse = "ok"
                                    /\ requests[k].has_file})

====
